---- MODULE Spec2Model ----
(***************************************************************************)
(* Model of the VR/VA benefit engine: the calendar service, the           *)
(* eligibility (working-day proration) rules, the benefit calculator and  *)
(* the de-duplication of consolidated employee records.                   *)
(***************************************************************************)
EXTENDS Integers, Sequences, FiniteSets, TLC

VARIABLES
    cal_call,       \* last call made to the calendar service (operation and arguments)
    cal_result,     \* value returned by that call
    elig_call,      \* eligibility step: the employee record and reference month being processed
    elig_days,      \* eligibility step: working_days stored on the employee
    calc_pc,        \* CalculatorAgent.calculate_benefits_for_employees: the step to run next
    calc_input,     \* its arguments: processing month and year, the union-rate table
    calc_employees, \* the Employee objects of the batch (mutated in place)
    calc_list,      \* the list handed from one step to the next (indexes of calc_employees)
    calc_result,    \* the dictionary returned
    ben_call,       \* value split: the operation and the values it is applied to
    ben_result,     \* value split: total, company and employee values computed
    dedup_input,    \* _remove_duplicates: the list of employees passed in
    dedup_output,    \* _remove_duplicates: the list returned
    pipe_pc,    \* the pipeline: the call to make next
    pipe_files,    \* the uploaded files handed to both runs
    pipe_reuse,    \* whether the second run uses the agents of the first
    pipe_agents,    \* the logs held by the two agent instances
    pipe_employees,    \* the Employee objects of the current run
    pipe_outputs,    \* what each finished run returned
    lookup_call,    \* rate lookup: the employee's position and days, the union-rate table
    lookup_result,    \* rate lookup: the dictionary returned by _calculate_vr_value
    run_pc,    \* position of the run
    run_input,    \* the files uploaded and the step that raises, if any
    run_employees,    \* the employee list handed from step to step
    run_steps,    \* the steps executed so far
    run_calls,    \* the entry points called and what each handed back
    batch_pc,    \* calculate_benefits_for_employees on a batch with failing records: the step to run next
    batch_input,    \* the employees as they were handed in
    batch_employees,    \* the Employee objects of the batch (mutated in place)
    batch_list,    \* filtered_employees, as indexes of batch_employees
    batch_success,    \* the 'success' field of the dictionary returned
    val_pc,    \* CalculatorAgent.validate_calculations: called or returned
    val_employees,    \* its argument
    val_result,    \* the dictionary returned
    vres_origin,    \* where the ValidationResult was created (none: no object)
    vres,    \* the ValidationResult object
    enr_pc,    \* consolidate_employee_data, steps 4 and 5: the step to run next
    enr_files,    \* the rows of the five complementary files
    enr_all,    \* all_employees as handed to _apply_complementary_data
    enr_employees,    \* the employee list after the last step run
    cache_files,    \* CacheManager: the files of cache_dir, by key
    cache_now,    \* the clock, in hours
    cache_call,    \* the last call made and what it returned
    cache_last    \* history: for every key, the most recent set and whether the entry was removed since

calVars == <<cal_call, cal_result>>
eligVars == <<elig_call, elig_days>>
calcVars == <<calc_pc, calc_input, calc_employees, calc_list, calc_result>>
benVars == <<ben_call, ben_result>>
dedupVars == <<dedup_input, dedup_output>>
pipeVars == <<pipe_pc, pipe_files, pipe_reuse, pipe_agents, pipe_employees, pipe_outputs>>
lookupVars == <<lookup_call, lookup_result>>
runVars == <<run_pc, run_input, run_employees, run_steps, run_calls>>
batchVars == <<batch_pc, batch_input, batch_employees, batch_list, batch_success>>
valVars == <<val_pc, val_employees, val_result>>
vresVars == <<vres_origin, vres>>
enrichVars == <<enr_pc, enr_files, enr_all, enr_employees>>
cacheVars == <<cache_files, cache_now, cache_call, cache_last>>

vars == <<cal_call, cal_result, elig_call, elig_days,
          calc_pc, calc_input, calc_employees, calc_list, calc_result,
          ben_call, ben_result, dedup_input, dedup_output,
          pipe_pc, pipe_files, pipe_reuse, pipe_agents, pipe_employees, pipe_outputs,
          lookup_call, lookup_result,
          run_pc, run_input, run_employees, run_steps, run_calls,
          batch_pc, batch_input, batch_employees, batch_list, batch_success,
          val_pc, val_employees, val_result,
          vres_origin, vres,
          enr_pc, enr_files, enr_all, enr_employees,
          cache_files, cache_now, cache_call, cache_last>>

\* what each component leaves alone: the state of the other components
notCal == <<eligVars, calcVars, benVars, dedupVars, pipeVars, lookupVars, runVars, batchVars, valVars, vresVars, enrichVars, cacheVars>>
notElig == <<calVars, calcVars, benVars, dedupVars, pipeVars, lookupVars, runVars, batchVars, valVars, vresVars, enrichVars, cacheVars>>
notCalc == <<calVars, eligVars, benVars, dedupVars, pipeVars, lookupVars, runVars, batchVars, valVars, vresVars, enrichVars, cacheVars>>
notBen == <<calVars, eligVars, calcVars, dedupVars, pipeVars, lookupVars, runVars, batchVars, valVars, vresVars, enrichVars, cacheVars>>
notDedup == <<calVars, eligVars, calcVars, benVars, pipeVars, lookupVars, runVars, batchVars, valVars, vresVars, enrichVars, cacheVars>>
notPipe == <<calVars, eligVars, calcVars, benVars, dedupVars, lookupVars, runVars, batchVars, valVars, vresVars, enrichVars, cacheVars>>
notLookup == <<calVars, eligVars, calcVars, benVars, dedupVars, pipeVars, runVars, batchVars, valVars, vresVars, enrichVars, cacheVars>>
notRun == <<calVars, eligVars, calcVars, benVars, dedupVars, pipeVars, lookupVars, batchVars, valVars, vresVars, enrichVars, cacheVars>>
notBatch == <<calVars, eligVars, calcVars, benVars, dedupVars, pipeVars, lookupVars, runVars, valVars, vresVars, enrichVars, cacheVars>>
notVal == <<calVars, eligVars, calcVars, benVars, dedupVars, pipeVars, lookupVars, runVars, batchVars, vresVars, enrichVars, cacheVars>>
notVres == <<calVars, eligVars, calcVars, benVars, dedupVars, pipeVars, lookupVars, runVars, batchVars, valVars, enrichVars, cacheVars>>
notEnrich == <<calVars, eligVars, calcVars, benVars, dedupVars, pipeVars, lookupVars, runVars, batchVars, valVars, vresVars, cacheVars>>
notCache == <<calVars, eligVars, calcVars, benVars, dedupVars, pipeVars, lookupVars, runVars, batchVars, valVars, vresVars, enrichVars>>

-----------------------------------------------------------------------------
(* Dates: datetime.date values and the calendar module.                     *)

\* A date value, or one of the non-date values a record field may hold.
MkDate(y, m, d) == [kind |-> "date", year |-> y, month |-> m, day |-> d]

IsLeap(y) == (y % 4 = 0) /\ ((y % 100 # 0) \/ (y % 400 = 0))

\* calendar.monthrange(year, month)[1]
DaysInMonth(y, m) ==
    IF m = 2 THEN (IF IsLeap(y) THEN 29 ELSE 28)
    ELSE IF m \in {4, 6, 9, 11} THEN 30 ELSE 31

RECURSIVE DaysBeforeMonth(_, _)
DaysBeforeMonth(y, m) ==
    IF m <= 1 THEN 0 ELSE DaysBeforeMonth(y, m - 1) + DaysInMonth(y, m - 1)

\* date.toordinal()
ToOrdinal(d) ==
    LET y1 == d.year - 1
    IN  y1 * 365 + (y1 \div 4) - (y1 \div 100) + (y1 \div 400)
        + DaysBeforeMonth(d.year, d.month) + d.day

\* date.weekday(): Monday is 0, Sunday is 6
Weekday(d) == (ToOrdinal(d) + 6) % 7

\* date comparison a <= b
DateLE(a, b) ==
    \/ a.year < b.year
    \/ a.year = b.year /\ a.month < b.month
    \/ a.year = b.year /\ a.month = b.month /\ a.day <= b.day

\* d + timedelta(days=1), d + relativedelta(days=1)
NextDay(d) ==
    IF d.day < DaysInMonth(d.year, d.month) THEN MkDate(d.year, d.month, d.day + 1)
    ELSE IF d.month < 12 THEN MkDate(d.year, d.month + 1, 1)
    ELSE MkDate(d.year + 1, 1, 1)

\* calendar.monthcalendar(year, month): the weeks of the month, each a list of
\* seven day numbers Monday..Sunday, 0 for the days outside the month.
MonthCalendar(y, m) ==
    LET first  == Weekday(MkDate(y, m, 1))
        ndays  == DaysInMonth(y, m)
        nweeks == (first + ndays + 6) \div 7
        cell(w, c) == LET n == (w - 1) * 7 + (c - 1) - first + 1
                      IN  IF n >= 1 /\ n <= ndays THEN n ELSE 0
    IN  [w \in 1..nweeks |-> [c \in 1..7 |-> cell(w, c)]]

\* x in list
InList(x, list) == \E i \in 1..Len(list) : list[i] = x

-----------------------------------------------------------------------------
(* Calendar service                                                          *)

\* for week in cal: for day in week[0:5]: if day != 0: working_days += 1
RECURSIVE CountWeekCells(_, _)
CountWeekCells(cal, w) ==
    IF w > Len(cal) THEN 0
    ELSE Cardinality({c \in 1..5 : cal[w][c] # 0}) + CountWeekCells(cal, w + 1)

\* for holiday in holidays: if same month and year and weekday() < 5: working_days -= 1
RECURSIVE HolidayDeductions(_, _, _, _)
HolidayDeductions(holidays, i, y, m) ==
    IF i > Len(holidays) THEN 0
    ELSE (IF holidays[i].month = m /\ holidays[i].year = y /\ Weekday(holidays[i]) < 5
          THEN 1 ELSE 0)
         + HolidayDeductions(holidays, i + 1, y, m)

get_working_days_in_month_noweekdaytest(y, m, holidays) ==
    CountWeekCells(MonthCalendar(y, m), 1)
    - Cardinality({i \in 1..Len(holidays) :
                     holidays[i].month = m /\ holidays[i].year = y})

\* DateUtils.get_working_days_in_month(year, month, holidays)
get_working_days_in_month(y, m, holidays) ==
    CountWeekCells(MonthCalendar(y, m), 1) - HolidayDeductions(holidays, 1, y, m)

\* BusinessRules.calculate_working_days(month, year, holidays)
calculate_working_days(m, y, holidays) ==
    CountWeekCells(MonthCalendar(y, m), 1) - HolidayDeductions(holidays, 1, y, m)

\* while current_date <= end_date: count weekdays that are not holidays
RECURSIVE BetweenLoop(_, _, _)
BetweenLoop(current, end, holidays) ==
    IF ~DateLE(current, end) THEN 0
    ELSE (IF Weekday(current) < 5 /\ (Len(holidays) = 0 \/ ~InList(current, holidays))
          THEN 1 ELSE 0)
         + BetweenLoop(NextDay(current), end, holidays)

RECURSIVE BetweenLoopHalfOpen(_, _, _)
BetweenLoopHalfOpen(current, end, holidays) ==
    IF ~DateLE(current, end) \/ current = end THEN 0
    ELSE (IF Weekday(current) < 5 /\ (Len(holidays) = 0 \/ ~InList(current, holidays))
          THEN 1 ELSE 0)
         + BetweenLoopHalfOpen(NextDay(current), end, holidays)

get_working_days_between_halfopen(start, end, holidays) ==
    BetweenLoopHalfOpen(start, end, holidays)

\* DateUtils.get_working_days_between(start_date, end_date, holidays)
get_working_days_between(start, end, holidays) == BetweenLoop(start, end, holidays)

-----------------------------------------------------------------------------
(* Inputs of the calendar service                                            *)

MaxHolidays == 2

Years == {2024, 2025}
Months == 1..12

\* Wednesday 2025-01-01, Saturday 2025-01-04, Monday 2025-01-20,
\* Monday 2025-02-03 (another month), Monday 2024-01-01 (another year)
HolidayPool ==
    { MkDate(2025, 1, 1), MkDate(2025, 1, 4), MkDate(2025, 1, 20),
      MkDate(2025, 2, 3), MkDate(2024, 1, 1) }

HolidayLists == UNION { [1..n -> HolidayPool] : n \in 0..MaxHolidays }

IntervalDates ==
    { MkDate(2024, 12, 30), MkDate(2025, 1, 1), MkDate(2025, 1, 4),
      MkDate(2025, 1, 5), MkDate(2025, 1, 20), MkDate(2025, 1, 31),
      MkDate(2025, 2, 3) }

NoCall == [op |-> "none", year |-> 0, month |-> 0, holidays |-> <<>>,
           start |-> MkDate(0, 0, 0), end |-> MkDate(0, 0, 0)]

CalInit == cal_call = NoCall /\ cal_result = 0

GetWorkingDaysInMonth ==
    /\ cal_call.op = "none"
    /\ \E y \in Years, m \in Months, h \in HolidayLists :
        /\ cal_call' = [NoCall EXCEPT !.op = "get_working_days_in_month",
                                      !.year = y, !.month = m, !.holidays = h]
        /\ cal_result' = get_working_days_in_month(y, m, h)
    /\ UNCHANGED notCal

CalculateWorkingDays ==
    /\ cal_call.op = "none"
    /\ \E y \in Years, m \in Months, h \in HolidayLists :
        /\ cal_call' = [NoCall EXCEPT !.op = "calculate_working_days",
                                      !.year = y, !.month = m, !.holidays = h]
        /\ cal_result' = calculate_working_days(m, y, h)
    /\ UNCHANGED notCal

GetWorkingDaysBetween ==
    /\ cal_call.op = "none"
    /\ \E s \in IntervalDates, e \in IntervalDates, h \in HolidayLists :
        /\ cal_call' = [NoCall EXCEPT !.op = "get_working_days_between",
                                      !.start = s, !.end = e, !.holidays = h]
        /\ cal_result' = get_working_days_between(s, e, h)
    /\ UNCHANGED notCal

\* the caller takes the returned value; the service keeps nothing between calls
CalReturn ==
    /\ cal_call.op # "none"
    /\ cal_call' = NoCall
    /\ cal_result' = 0
    /\ UNCHANGED notCal

CalNext ==
    \/ GetWorkingDaysInMonth
    \/ CalculateWorkingDays
    \/ GetWorkingDaysBetween
    \/ CalReturn

-----------------------------------------------------------------------------
(* Reference definitions used by the properties                              *)

DatesOfMonth(y, m) == { MkDate(y, m, d) : d \in 1..DaysInMonth(y, m) }

IsMonFri(d) == Weekday(d) \in 0..4

\* entries of the holiday list that fall in month m of year y on a weekday
WeekdayHolidayEntries(holidays, y, m) ==
    { i \in 1..Len(holidays) :
        holidays[i].year = y /\ holidays[i].month = m /\ IsMonFri(holidays[i]) }

\* the dates from a to b, both included (empty when a > b)
DatesBetween(a, b) ==
    { x \in { MkDate(y, m, d) : y \in (a.year)..(b.year), m \in 1..12, d \in 1..31 } :
        x.day <= DaysInMonth(x.year, x.month) /\ DateLE(a, x) /\ DateLE(x, b) }

\* the holiday list without the entries on a Saturday or Sunday or outside month m of year y
RelevantHolidays(holidays, y, m) ==
    SelectSeq(holidays, LAMBDA h : h.year = y /\ h.month = m /\ IsMonFri(h))

-----------------------------------------------------------------------------
(* Eligibility rules: BusinessRules.calculate_employee_working_days            *)

\* Values of a date field of an employee record: the key may be missing
\* ("absent"), hold None ("none"), a date, a 'YYYY-MM-DD' string ("str") or a
\* string that strptime rejects ("badstr").
Absent == [kind |-> "absent", year |-> 0, month |-> 0, day |-> 0]
NoneValue == [kind |-> "none", year |-> 0, month |-> 0, day |-> 0]
BadStr == [kind |-> "badstr", year |-> 0, month |-> 0, day |-> 0]
StrDate(y, m, d) == [kind |-> "str", year |-> y, month |-> m, day |-> d]

\* datetime.strptime(value, '%Y-%m-%d').date() of a well-formed string; a date as it is
AsDate(v) == MkDate(v.year, v.month, v.day)

Max(a, b) == IF a >= b THEN a ELSE b

FirstDay(y, m) == MkDate(y, m, 1)
LastDay(y, m) == MkDate(y, m, DaysInMonth(y, m))

\* while current_date <= bound: count the dates with weekday() < 5
RECURSIVE WeekdayLoop(_, _)
WeekdayLoop(current, bound) ==
    IF ~DateLE(current, bound) THEN 0
    ELSE (IF Weekday(current) < 5 THEN 1 ELSE 0) + WeekdayLoop(NextDay(current), bound)

calculate_working_days_from_date_exclusive(start_date, m, y) ==
    WeekdayLoop(NextDay(IF DateLE(FirstDay(y, m), start_date) THEN start_date
                        ELSE FirstDay(y, m)),
                LastDay(y, m))

\* BusinessRules.calculate_working_days_from_date(start_date, month, year)
calculate_working_days_from_date(start_date, m, y) ==
    LET actual_start == IF DateLE(FirstDay(y, m), start_date) THEN start_date
                        ELSE FirstDay(y, m)
    IN  WeekdayLoop(actual_start, LastDay(y, m))

\* BusinessRules.calculate_working_days_until_date(end_date, month, year)
calculate_working_days_until_date(end_date, m, y) ==
    LET actual_end == IF DateLE(end_date, LastDay(y, m)) THEN end_date ELSE LastDay(y, m)
    IN  WeekdayLoop(FirstDay(y, m), actual_end)

\* while current_date <= end_date and current_date <= last_day: count weekdays
RECURSIVE IntervalLoop(_, _, _)
IntervalLoop(current, end_date, last_day) ==
    IF ~(DateLE(current, end_date) /\ DateLE(current, last_day)) THEN 0
    ELSE (IF Weekday(current) < 5 THEN 1 ELSE 0)
         + IntervalLoop(NextDay(current), end_date, last_day)

\* BusinessRules.calculate_vacation_days(start_date, end_date, month, year)
calculate_vacation_days(start_date, end_date, m, y) ==
    IF start_date.kind = "none" \/ end_date.kind = "none" THEN 0
    ELSE IF start_date.kind = "badstr" \/ end_date.kind = "badstr" THEN 0
    ELSE IF start_date.month # m \/ start_date.year # y THEN 0
    ELSE IntervalLoop(AsDate(start_date), AsDate(end_date), LastDay(y, m))

\* BusinessRules.calculate_leave_days(start_date, end_date, month, year)
calculate_leave_days(start_date, end_date, m, y) ==
    IF start_date.kind = "none" \/ end_date.kind = "none" THEN 0
    ELSE IF start_date.kind = "badstr" \/ end_date.kind = "badstr" THEN 0
    ELSE IF start_date.month # m \/ start_date.year # y THEN 0
    ELSE IntervalLoop(AsDate(start_date), AsDate(end_date), LastDay(y, m))

\* Outcome of a block of the method: an exception was raised, the method
\* returned early with value, or control goes on with base_working_days = value.
Raised == [raised |-> TRUE, returned |-> FALSE, value |-> 0]
Returned(v) == [raised |-> FALSE, returned |-> TRUE, value |-> v]
Continue(v) == [raised |-> FALSE, returned |-> FALSE, value |-> v]

\* "Ajustes por data de admissão"
AdmissionAdjustment(employee_data, m, y, base) ==
    LET a == employee_data.data_admissao
    IN  IF a.kind = "absent" THEN Continue(base)
        ELSE IF a.kind \in {"badstr", "none"} THEN Raised
        ELSE IF a.month = m /\ a.year = y
             THEN Continue(calculate_working_days_from_date(AsDate(a), m, y))
             ELSE Continue(base)

TerminationAdjustment_before15(employee_data, m, y, base) ==
    LET t == employee_data.data_desligamento
    IN  IF t.kind \in {"absent", "none"} THEN Continue(base)
        ELSE IF t.kind = "badstr" THEN Raised
        ELSE IF t.month = m /\ t.year = y
             THEN (IF t.day < 15 THEN Returned(0)
                   ELSE Continue(calculate_working_days_until_date(AsDate(t), m, y)))
             ELSE Continue(base)

\* "Ajustes por data de desligamento", with the day-15 rule
TerminationAdjustment(employee_data, m, y, base) ==
    LET t == employee_data.data_desligamento
    IN  IF t.kind \in {"absent", "none"} THEN Continue(base)
        ELSE IF t.kind = "badstr" THEN Raised
        ELSE IF t.month = m /\ t.year = y
             THEN (IF t.day <= 15 THEN Returned(0)
                   ELSE Continue(calculate_working_days_until_date(AsDate(t), m, y)))
             ELSE Continue(base)

\* "Ajustes por férias"
VacationAdjustment(employee_data, m, y, base) ==
    IF employee_data.data_inicio_ferias.kind # "absent"
       /\ employee_data.data_fim_ferias.kind # "absent"
    THEN base - calculate_vacation_days(employee_data.data_inicio_ferias,
                                        employee_data.data_fim_ferias, m, y)
    ELSE base

\* "Ajustes por afastamento"
LeaveAdjustment(employee_data, m, y, base) ==
    IF employee_data.data_inicio_afastamento.kind # "absent"
       /\ employee_data.data_fim_afastamento.kind # "absent"
    THEN base - calculate_leave_days(employee_data.data_inicio_afastamento,
                                     employee_data.data_fim_afastamento, m, y)
    ELSE base

\* The body of the try block, up to the value handed to max(0, ...)
EmployeeDaysBody(employee_data, m, y) ==
    LET base == calculate_working_days(m, y, <<>>)
        adm  == AdmissionAdjustment(employee_data, m, y, base)
    IN  IF adm.raised THEN Raised
        ELSE LET term == TerminationAdjustment(employee_data, m, y, adm.value)
             IN  IF term.raised \/ term.returned THEN term
                 ELSE Continue(LeaveAdjustment(employee_data, m, y,
                                 VacationAdjustment(employee_data, m, y, term.value)))

calculate_employee_working_days_noclamp(employee_data, m, y) ==
    LET r == EmployeeDaysBody(employee_data, m, y)
    IN  IF r.raised THEN 0 ELSE r.value

\* BusinessRules.calculate_employee_working_days(employee_data, month, year)
calculate_employee_working_days(employee_data, m, y) ==
    LET r == EmployeeDaysBody(employee_data, m, y)
    IN  IF r.raised THEN 0
        ELSE IF r.returned THEN r.value
        ELSE Max(0, r.value)

-----------------------------------------------------------------------------
(* Inputs of the eligibility step                                            *)

\* January 2025: the 1st is a Wednesday, the 15th a Wednesday, 23 weekdays.
\* February 2025: the 15th is a Saturday, the 16th a Sunday, 20 weekdays.
RefMonths == { [year |-> 2025, month |-> 1], [year |-> 2025, month |-> 2] }

AdmissionValues ==
    { Absent, NoneValue, BadStr, MkDate(2024, 6, 10), MkDate(2025, 1, 1),
      MkDate(2025, 1, 20), StrDate(2025, 1, 31), MkDate(2025, 2, 17) }

TerminationValues ==
    { Absent, NoneValue, BadStr, MkDate(2025, 1, 10), MkDate(2025, 1, 15),
      MkDate(2025, 1, 16), StrDate(2025, 1, 31), MkDate(2025, 2, 16),
      MkDate(2025, 3, 10) }

\* (start, end) of a vacation or leave interval
IntervalValues ==
    { <<Absent, Absent>>, <<NoneValue, NoneValue>>, <<MkDate(2025, 1, 6), Absent>>,
      <<BadStr, MkDate(2025, 1, 17)>>,
      <<MkDate(2024, 12, 23), MkDate(2025, 1, 10)>>,
      <<MkDate(2025, 1, 6), MkDate(2025, 1, 17)>>,
      <<MkDate(2025, 1, 1), MkDate(2025, 1, 31)>>,
      <<StrDate(2025, 1, 27), StrDate(2025, 2, 7)>>,
      <<MkDate(2025, 1, 20), MkDate(2025, 1, 10)>> }

EmployeeData(adm, term, vac, leave) ==
    [data_admissao |-> adm, data_desligamento |-> term,
     data_inicio_ferias |-> vac[1], data_fim_ferias |-> vac[2],
     data_inicio_afastamento |-> leave[1], data_fim_afastamento |-> leave[2]]

NoEligCall ==
    [op |-> "none", year |-> 0, month |-> 0,
     employee |-> EmployeeData(Absent, Absent, <<Absent, Absent>>, <<Absent, Absent>>)]

EligInit == elig_call = NoEligCall /\ elig_days = 0

\* CalculatorAgent._calculate_working_days for one employee of the batch:
\* employee.working_days = business_rules.calculate_employee_working_days(...)
CalculateEmployeeWorkingDays ==
    /\ elig_call.op = "none"
    /\ \E ref \in RefMonths, adm \in AdmissionValues, term \in TerminationValues,
          vac \in IntervalValues, leave \in IntervalValues :
        LET e == EmployeeData(adm, term, vac, leave)
        IN  /\ elig_call' = [op |-> "calculate_employee_working_days",
                             year |-> ref.year, month |-> ref.month, employee |-> e]
            /\ elig_days' = calculate_employee_working_days(e, ref.month, ref.year)
    /\ UNCHANGED notElig

\* the next employee of the batch is taken
EligReturn ==
    /\ elig_call.op # "none"
    /\ elig_call' = NoEligCall
    /\ elig_days' = 0
    /\ UNCHANGED notElig

EligNext == CalculateEmployeeWorkingDays \/ EligReturn

-----------------------------------------------------------------------------------------------------------------------------------------------------
(* Text: a str is a sequence of characters                                   *)

UpperChars == <<"A", "B", "C", "D", "E", "F", "G", "H", "I", "J", "K", "L", "M", "N",
                "O", "P", "Q", "R", "S", "T", "U", "V", "W", "X", "Y", "Z",
                "Á", "Ã", "Ç", "É">>
LowerChars == <<"a", "b", "c", "d", "e", "f", "g", "h", "i", "j", "k", "l", "m", "n",
                "o", "p", "q", "r", "s", "t", "u", "v", "w", "x", "y", "z",
                "á", "ã", "ç", "é">>

LowerChar(c) ==
    IF \E i \in 1..Len(UpperChars) : UpperChars[i] = c
    THEN LowerChars[CHOOSE i \in 1..Len(UpperChars) : UpperChars[i] = c]
    ELSE c

\* str.lower()
Lower(str) == [i \in 1..Len(str) |-> LowerChar(str[i])]

\* sub in str
Contains(sub, str) ==
    \E i \in 1..(Len(str) - Len(sub) + 1) : SubSeq(str, i, i + Len(sub) - 1) = sub

\* sep.join(parts)
RECURSIVE Join(_, _)
Join(sep, parts) ==
    IF Len(parts) = 0 THEN <<>>
    ELSE IF Len(parts) = 1 THEN parts[1]
    ELSE parts[1] \o sep \o Join(sep, Tail(parts))

S_diretor == <<"d", "i", "r", "e", "t", "o", "r">>
S_diretores == <<"d", "i", "r", "e", "t", "o", "r", "e", "s">>
S_presidente == <<"p", "r", "e", "s", "i", "d", "e", "n", "t", "e">>
S_vice_presidente == <<"v", "i", "c", "e", "-", "p", "r", "e", "s", "i", "d", "e", "n", "t", "e">>
S_estagiario_acento == <<"e", "s", "t", "a", "g", "i", "á", "r", "i", "o">>
S_estagiario == <<"e", "s", "t", "a", "g", "i", "a", "r", "i", "o">>
S_estagiaria == <<"e", "s", "t", "a", "g", "i", "a", "r", "i", "a">>
S_estagiarios == <<"e", "s", "t", "a", "g", "i", "a", "r", "i", "o", "s">>
S_estagiarias == <<"e", "s", "t", "a", "g", "i", "a", "r", "i", "a", "s">>
S_aprendiz == <<"a", "p", "r", "e", "n", "d", "i", "z">>
S_aprendizes == <<"a", "p", "r", "e", "n", "d", "i", "z", "e", "s">>
S_direcao == <<"d", "i", "r", "e", "ç", "ã", "o">>

R_CargoDeDirecao == <<"C", "a", "r", "g", "o", " ", "d", "e", " ", "d", "i", "r", "e", "ç", "ã", "o">>
R_Estagiario == <<"E", "s", "t", "a", "g", "i", "á", "r", "i", "o">>
R_Aprendiz == <<"A", "p", "r", "e", "n", "d", "i", "z">>
R_Exterior == <<"F", "u", "n", "c", "i", "o", "n", "á", "r", "i", "o", " ", "n", "o", " ", "e", "x", "t", "e", "r", "i", "o", "r">>
R_RegraAplicada == <<"R", "e", "g", "r", "a", " ", "d", "e", " ", "e", "x", "c", "l", "u", "s", "ã", "o", " ", "a", "p", "l", "i", "c", "a", "d", "a">>
R_Separator == <<";", " ">>

P_Analista == <<"A", "n", "a", "l", "i", "s", "t", "a">>
P_DiretorFinanceiro == <<"D", "i", "r", "e", "t", "o", "r", " ", "F", "i", "n", "a", "n", "c", "e", "i", "r", "o">>
P_VICE_PRESIDENTE == <<"V", "I", "C", "E", "-", "P", "R", "E", "S", "I", "D", "E", "N", "T", "E">>
P_ESTAGIARIO == <<"E", "S", "T", "A", "G", "I", "Á", "R", "I", "O">>

-----------------------------------------------------------------------------
(* Benefit calculator: CalculatorAgent.calculate_benefits_for_employees       *)

\* Money is counted in units of 1/Scale of a currency unit; a float division
\* keeps the integer part of the quotient in these units.
Scale == 100 * 100
Money(units, thousandths) == units * Scale + thousandths * (Scale \div 1000)
Tolerance == Scale \div 100

\* BusinessRules.exclusion_cargos
exclusion_cargos ==
    << S_diretor, S_diretores, S_presidente, S_vice_presidente,
       S_estagiario_acento, S_estagiaria, S_estagiarios, S_estagiarias,
       S_aprendiz, S_aprendizes >>

\* BusinessRules.should_exclude_employee(employee): the position contains an
\* exclusion marker (case-insensitive substring match) or the status is EXTERIOR
should_exclude_employee(employee) ==
    \/ \E i \in 1..Len(exclusion_cargos) :
          Contains(exclusion_cargos[i], Lower(employee.position))
    \/ employee.status = "EXTERIOR"

\* BusinessRules.apply_specific_rules(employee, month, year): the employee as it is
apply_specific_rules(employee, m, y) == employee

get_exclusion_reason_casesensitive(employee) ==
    LET position_reason ==
            IF Len(employee.position) = 0 THEN <<>>
            ELSE IF Contains(S_diretor, employee.position)
                    \/ Contains(S_presidente, employee.position)
                 THEN <<R_CargoDeDirecao>>
            ELSE IF Contains(S_estagiario_acento, employee.position)
                    \/ Contains(S_estagiario, employee.position)
                 THEN <<R_Estagiario>>
            ELSE IF Contains(S_aprendiz, employee.position) THEN <<R_Aprendiz>>
            ELSE <<>>
        status_reason == IF employee.status = "EXTERIOR" THEN <<R_Exterior>> ELSE <<>>
        exclusion_reasons == position_reason \o status_reason
    IN  IF Len(exclusion_reasons) > 0 THEN Join(R_Separator, exclusion_reasons)
        ELSE R_RegraAplicada

\* CalculatorAgent._get_exclusion_reason(employee)
get_exclusion_reason(employee) ==
    LET position_lower == Lower(employee.position)
        position_reason ==
            IF Len(employee.position) = 0 THEN <<>>
            ELSE IF Contains(S_diretor, position_lower)
                    \/ Contains(S_presidente, position_lower)
                 THEN <<R_CargoDeDirecao>>
            ELSE IF Contains(S_estagiario_acento, position_lower)
                    \/ Contains(S_estagiario, position_lower)
                 THEN <<R_Estagiario>>
            ELSE IF Contains(S_aprendiz, position_lower) THEN <<R_Aprendiz>>
            ELSE <<>>
        status_reason == IF employee.status = "EXTERIOR" THEN <<R_Exterior>> ELSE <<>>
        exclusion_reasons == position_reason \o status_reason
    IN  IF Len(exclusion_reasons) > 0 THEN Join(R_Separator, exclusion_reasons)
        ELSE R_RegraAplicada

\* the loop body of _apply_exclusion_rules for an excluded employee: the
\* status is assigned first, the reason is computed from the updated object
ExcludeEmployee(employee) ==
    LET marked == [employee EXCEPT !.status = "EXCLUIDO"]
    IN  [marked EXCEPT !.exclusion_reason = get_exclusion_reason(marked)]

\* the union-rate table: uploaded_files['base_sindicato_valor'] read into
\* reference_data['union_values'], rows of Cargo and Valor_Diario
NoTable == [present |-> FALSE, rows |-> <<>>]
Table(rows) == [present |-> TRUE, rows |-> rows]

\* a cell without a string in it (float nan): .lower() on it raises
NaN == <<"NaN">>

FirstMatchingRow_last(rows, position) ==
    LET hits == { i \in 1..Len(rows) :
                    /\ rows[i].Cargo # NaN
                    /\ Contains(Lower(rows[i].Cargo), Lower(position)) }
    IN  IF Len(position) = 0 \/ hits = {} THEN 0
        ELSE CHOOSE i \in hits : \A j \in hits : i >= j

\* the first row, in table order, whose Cargo is a case-insensitive substring
\* of the position; 0 when there is none
FirstMatchingRow(rows, position) ==
    LET hits == { i \in 1..Len(rows) :
                    /\ rows[i].Cargo # NaN
                    /\ Contains(Lower(rows[i].Cargo), Lower(position)) }
    IN  IF Len(position) = 0 \/ hits = {} THEN 0
        ELSE CHOOSE i \in hits : \A j \in hits : i <= j

\* the first row on which row['Cargo'].lower() raises; 0 when there is none
\* or when the position is empty (the test stops at employee.position)
FirstFailingRow(rows, position) ==
    LET bad == { i \in 1..Len(rows) : rows[i].Cargo = NaN }
    IN  IF Len(position) = 0 \/ bad = {} THEN 0
        ELSE CHOOSE i \in bad : \A j \in bad : i <= j

DefaultDailyValue == Money(25, 0)

\* CalculatorAgent._get_daily_vr_value(employee, reference_data); None (no
\* table, or an exception caught in the method) is replaced by the default
\* rate in _calculate_vr_value
get_daily_vr_value(employee, table) ==
    IF ~table.present THEN DefaultDailyValue
    ELSE LET hit == FirstMatchingRow(table.rows, employee.position)
             bad == FirstFailingRow(table.rows, employee.position)
         IN  IF bad # 0 /\ (hit = 0 \/ bad < hit) THEN DefaultDailyValue
             ELSE IF hit # 0 THEN table.rows[hit].Valor_Diario
             ELSE IF Len(table.rows) = 0 THEN DefaultDailyValue
             ELSE table.rows[1].Valor_Diario

\* CalculatorAgent._calculate_vr_value(employee, reference_data)
calculate_vr_value_of(employee, table) ==
    LET daily_value == get_daily_vr_value(employee, table)
    IN  [daily_value |-> daily_value,
         total_value |-> daily_value * employee.working_days,
         working_days |-> employee.working_days]

\* settings.DEFAULT_VR_PERCENTAGE_EMPRESA / DEFAULT_VR_PERCENTAGE_FUNCIONARIO
DEFAULT_VR_PERCENTAGE_EMPRESA == 80
DEFAULT_VR_PERCENTAGE_FUNCIONARIO == 20

\* Benefit(employee_id, benefit_type=VR, daily_value, working_days, total_value, ...)
MkBenefit(employee, vr_calculation) ==
    [employee_id |-> employee.id,
     daily_value |-> vr_calculation.daily_value,
     working_days |-> employee.working_days,
     total_value |-> vr_calculation.total_value,
     company_percentage |-> DEFAULT_VR_PERCENTAGE_EMPRESA,
     employee_percentage |-> DEFAULT_VR_PERCENTAGE_FUNCIONARIO]

MaxTotalValue == 1000
MinTotalValue == 10

ClampBenefit_nofloor(benefit, working_days) ==
    IF benefit.total_value > Money(MaxTotalValue, 0)
    THEN [benefit EXCEPT
            !.total_value = Money(MaxTotalValue, 0),
            !.daily_value = IF working_days > 0
                            THEN Money(MaxTotalValue, 0) \div working_days
                            ELSE 0]
    ELSE benefit

\* the two clamps of _apply_specific_rules on one benefit
ClampBenefit(benefit, working_days) ==
    LET capped ==
            IF benefit.total_value > Money(MaxTotalValue, 0)
            THEN [benefit EXCEPT
                    !.total_value = Money(MaxTotalValue, 0),
                    !.daily_value = IF working_days > 0
                                    THEN Money(MaxTotalValue, 0) \div working_days
                                    ELSE 0]
            ELSE benefit
    IN  IF capped.total_value < Money(MinTotalValue, 0)
        THEN [capped EXCEPT
                !.total_value = Money(MinTotalValue, 0),
                !.daily_value = IF working_days > 0
                                THEN Money(MinTotalValue, 0) \div working_days
                                ELSE 0]
        ELSE capped

\* the loop body of _apply_specific_rules for one employee
ApplySpecificRulesTo(employee, m, y) ==
    LET e == apply_specific_rules(employee, m, y)
    IN  [e EXCEPT !.benefits =
            [k \in 1..Len(e.benefits) |-> ClampBenefit(e.benefits[k], e.working_days)]]

-----------------------------------------------------------------------------
(* Inputs of the benefit calculator                                          *)

MaxBatch == 2

\* An Employee object as the agents use it: id, position, status, the date
\* fields read by the eligibility rules, and the computed fields.
Employee(id, position, status, adm, term, vac) ==
    [id |-> id, position |-> position, status |-> status,
     data_admissao |-> adm, data_desligamento |-> term,
     data_inicio_ferias |-> vac[1], data_fim_ferias |-> vac[2],
     data_inicio_afastamento |-> NoneValue, data_fim_afastamento |-> NoneValue,
     working_days |-> 0, benefits |-> <<>>, exclusion_reason |-> <<>>]

PositionPool == { P_Analista, P_DiretorFinanceiro, P_VICE_PRESIDENTE, P_ESTAGIARIO }

\* status, admission, termination, vacation: a full month (23 days), a
\* termination on the 10th (0 days), overseas, a whole month of vacation
\* (0 days), an admission on the 20th (10 days)
SituationPool ==
    { <<"ATIVO", MkDate(2024, 6, 10), NoneValue, <<NoneValue, NoneValue>>>>,
      <<"DESLIGADO", MkDate(2024, 6, 10), MkDate(2025, 1, 10), <<NoneValue, NoneValue>>>>,
      <<"EXTERIOR", MkDate(2024, 6, 10), NoneValue, <<NoneValue, NoneValue>>>>,
      <<"ATIVO", MkDate(2024, 6, 10), NoneValue, <<MkDate(2025, 1, 1), MkDate(2025, 1, 31)>>>>,
      <<"ADMISSAO", MkDate(2025, 1, 20), NoneValue, <<NoneValue, NoneValue>>>> }

\* the batches: lists of at most MaxBatch employees, the k-th with id k
Batches ==
    UNION { { [k \in 1..n |-> Employee(k, ps[k], ss[k][1], ss[k][2], ss[k][3], ss[k][4])] :
                ps \in [1..n -> PositionPool], ss \in [1..n -> SituationPool] } :
            n \in 0..MaxBatch }

TablePool ==
    { NoTable,
      Table(<< [Cargo |-> <<"A", "n", "a", "l", "i", "s", "t", "a">>, Valor_Diario |-> Money(50, 0)],
               [Cargo |-> <<"e", "s", "t", "a", "g", "i">>, Valor_Diario |-> Money(30, 0)] >>),
      Table(<< [Cargo |-> <<"G", "e", "r", "e", "n", "t", "e">>, Valor_Diario |-> Money(0, 400)] >>) }

NoInput == [month |-> 0, year |-> 0, table |-> NoTable]
NoResult == [success |-> FALSE, data |-> <<>>]

CalcInit ==
    /\ calc_pc = "idle"
    /\ calc_input = NoInput
    /\ calc_employees = <<>>
    /\ calc_list = <<>>
    /\ calc_result = NoResult

\* calculate_benefits_for_employees is called; _load_reference_data
CalculateBenefitsForEmployees ==
    /\ calc_pc = "idle"
    /\ \E batch \in Batches, table \in TablePool :
        /\ calc_employees' = batch
        /\ calc_list' = [k \in 1..Len(batch) |-> k]
        /\ calc_input' = [month |-> 1, year |-> 2025, table |-> table]
    /\ calc_pc' = "exclusion_rules"
    /\ calc_result' = NoResult
    /\ UNCHANGED notCalc

\* _apply_exclusion_rules(employees)
ApplyExclusionRules ==
    /\ calc_pc = "exclusion_rules"
    /\ calc_employees' =
         [k \in 1..Len(calc_employees) |->
            IF should_exclude_employee(calc_employees[k])
            THEN ExcludeEmployee(calc_employees[k])
            ELSE calc_employees[k]]
    /\ calc_list' = SelectSeq(calc_list,
                        LAMBDA k : ~should_exclude_employee(calc_employees[k]))
    /\ calc_pc' = "working_days"
    /\ UNCHANGED <<calc_input, calc_result, notCalc>>

\* _calculate_working_days(filtered_employees, month, year, reference_data)
CalculateWorkingDaysOfBatch ==
    /\ calc_pc = "working_days"
    /\ calc_employees' =
         [k \in 1..Len(calc_employees) |->
            IF InList(k, calc_list)
            THEN [calc_employees[k] EXCEPT !.working_days =
                    calculate_employee_working_days(calc_employees[k],
                                                    calc_input.month, calc_input.year)]
            ELSE calc_employees[k]]
    /\ calc_pc' = "vr_va_values"
    /\ UNCHANGED <<calc_input, calc_list, calc_result, notCalc>>

\* _calculate_vr_va_values(employees_with_days, reference_data)
CalculateVrVaValues ==
    /\ calc_pc = "vr_va_values"
    /\ calc_employees' =
         [k \in 1..Len(calc_employees) |->
            IF InList(k, calc_list)
            THEN [calc_employees[k] EXCEPT !.benefits =
                    << MkBenefit(calc_employees[k],
                                 calculate_vr_value_of(calc_employees[k], calc_input.table)) >>]
            ELSE calc_employees[k]]
    /\ calc_pc' = "specific_rules"
    /\ UNCHANGED <<calc_input, calc_list, calc_result, notCalc>>

\* _apply_specific_rules(employees_with_benefits, month, year)
ApplySpecificRules ==
    /\ calc_pc = "specific_rules"
    /\ calc_employees' =
         [k \in 1..Len(calc_employees) |->
            IF InList(k, calc_list)
            THEN ApplySpecificRulesTo(calc_employees[k], calc_input.month, calc_input.year)
            ELSE calc_employees[k]]
    /\ calc_pc' = "summary"
    /\ UNCHANGED <<calc_input, calc_list, calc_result, notCalc>>

\* _generate_calculation_summary and the returned dictionary
CalcFinish ==
    /\ calc_pc = "summary"
    /\ calc_result' = [success |-> TRUE, data |-> calc_list]
    /\ calc_pc' = "done"
    /\ UNCHANGED <<calc_input, calc_employees, calc_list, notCalc>>

\* the caller takes the result; the next call starts from a new batch
CalcReturn ==
    /\ calc_pc = "done"
    /\ calc_pc' = "idle"
    /\ calc_input' = NoInput
    /\ calc_employees' = <<>>
    /\ calc_list' = <<>>
    /\ calc_result' = NoResult
    /\ UNCHANGED notCalc

CalcNext ==
    \/ CalculateBenefitsForEmployees
    \/ ApplyExclusionRules
    \/ CalculateWorkingDaysOfBatch
    \/ CalculateVrVaValues
    \/ ApplySpecificRules
    \/ CalcFinish
    \/ CalcReturn

-----------------------------------------------------------------------------
(* Value split: Benefit.calcular_valores and BusinessRules.calculate_vr_value *)

calcular_valores_swapped(valor_diario, dias_efetivos, percentual_empresa, percentual_funcionario) ==
    LET valor_mensal == valor_diario * dias_efetivos
    IN  [total |-> valor_mensal,
         company |-> (valor_mensal * percentual_funcionario) \div 100,
         employee |-> (valor_mensal * percentual_empresa) \div 100]

\* Benefit.calcular_valores(dias_efetivos) on a Benefit with the given
\* valor_diario, percentual_empresa and percentual_funcionario
calcular_valores(valor_diario, dias_efetivos, percentual_empresa, percentual_funcionario) ==
    LET valor_mensal == valor_diario * dias_efetivos
    IN  [total |-> valor_mensal,
         company |-> (valor_mensal * percentual_empresa) \div 100,
         employee |-> (valor_mensal * percentual_funcionario) \div 100]

\* BusinessRules.calculate_vr_value(working_days, daily_value): 0.8 and 0.2
calculate_vr_value(working_days, daily_value) ==
    LET total_value == working_days * daily_value
    IN  [total |-> total_value,
         company |-> (total_value * 8) \div 10,
         employee |-> (total_value * 2) \div 10]

MaxDays == 23

DailyValues == { 0, Money(0, 400), Money(25, 0), Money(30, 555), Money(50, 0) }

\* percentual_empresa, percentual_funcionario: each validated to lie in 0..100
PercentagePairs == { <<80, 20>>, <<50, 50>>, <<100, 0>>, <<67, 33>>, <<60, 30>> }

NoBenCall == [op |-> "none", daily_value |-> 0, days |-> 0,
              company_percentage |-> 0, employee_percentage |-> 0]
NoBenResult == [total |-> 0, company |-> 0, employee |-> 0]

BenInit == ben_call = NoBenCall /\ ben_result = NoBenResult

CalcularValores ==
    /\ ben_call.op = "none"
    /\ \E v \in DailyValues, d \in 0..MaxDays, pp \in PercentagePairs :
        /\ ben_call' = [op |-> "calcular_valores", daily_value |-> v, days |-> d,
                        company_percentage |-> pp[1], employee_percentage |-> pp[2]]
        /\ ben_result' = calcular_valores(v, d, pp[1], pp[2])
    /\ UNCHANGED notBen

CalculateVrValue ==
    /\ ben_call.op = "none"
    /\ \E v \in DailyValues, d \in 0..MaxDays :
        /\ ben_call' = [op |-> "calculate_vr_value", daily_value |-> v, days |-> d,
                        company_percentage |-> DEFAULT_VR_PERCENTAGE_EMPRESA,
                        employee_percentage |-> DEFAULT_VR_PERCENTAGE_FUNCIONARIO]
        /\ ben_result' = calculate_vr_value(d, v)
    /\ UNCHANGED notBen

BenReturn ==
    /\ ben_call.op # "none"
    /\ ben_call' = NoBenCall
    /\ ben_result' = NoBenResult
    /\ UNCHANGED notBen

BenNext == CalcularValores \/ CalculateVrValue \/ BenReturn

-----------------------------------------------------------------------------
(* De-duplication: DataConsolidatorAgent._remove_duplicates                   *)

should_replace_employee_infoonly(existing, new) ==
    LET existing_info == Len(existing.name)
                         + (IF existing.admission_date.kind # "none" THEN 1 ELSE 0)
        new_info == Len(new.name) + (IF new.admission_date.kind # "none" THEN 1 ELSE 0)
    IN  new_info > existing_info

should_replace_employee_onties(existing, new) ==
    LET existing_info == Len(existing.name)
                         + (IF existing.admission_date.kind # "none" THEN 1 ELSE 0)
        new_info == Len(new.name) + (IF new.admission_date.kind # "none" THEN 1 ELSE 0)
    IN  IF new.status = "ATIVO" /\ existing.status # "ATIVO" THEN TRUE
        ELSE new_info >= existing_info

\* DataConsolidatorAgent._should_replace_employee(existing, new)
should_replace_employee(existing, new) ==
    LET existing_info == Len(existing.name)
                         + (IF existing.admission_date.kind # "none" THEN 1 ELSE 0)
        new_info == Len(new.name) + (IF new.admission_date.kind # "none" THEN 1 ELSE 0)
    IN  IF new.status = "ATIVO" /\ existing.status # "ATIVO" THEN TRUE
        ELSE new_info > existing_info

IndexOfId_lastonly(unique, id) ==
    IF Len(unique) > 0 /\ unique[Len(unique)].id = id THEN Len(unique) ELSE 0

\* position of the entry with this id in the dictionary's values, 0 if none
IndexOfId(unique, id) ==
    IF \E i \in 1..Len(unique) : unique[i].id = id
    THEN CHOOSE i \in 1..Len(unique) : unique[i].id = id
    ELSE 0

\* the for loop of _remove_duplicates: unique_employees is a dict keyed by id,
\* held here as its values in insertion order
RECURSIVE RemoveLoop(_, _, _)
RemoveLoop(employees, k, unique) ==
    IF k > Len(employees) THEN unique
    ELSE LET employee == employees[k]
             at == IndexOfId(unique, employee.id)
         IN  IF at = 0 THEN RemoveLoop(employees, k + 1, Append(unique, employee))
             ELSE IF should_replace_employee(unique[at], employee)
                  THEN RemoveLoop(employees, k + 1, [unique EXCEPT ![at] = employee])
                  ELSE RemoveLoop(employees, k + 1, unique)

\* DataConsolidatorAgent._remove_duplicates(employees)
remove_duplicates(employees) == RemoveLoop(employees, 1, <<>>)

\* ValidatorAgent._validate_data_consistency(employees): an error when an id
\* occurs more than once, a warning when a name does
validate_data_consistency(employees) ==
    LET duplicate_ids ==
            { employees[i].id : i \in { i \in 1..Len(employees) :
                \E j \in 1..Len(employees) : j # i /\ employees[j].id = employees[i].id } }
        duplicate_names ==
            { employees[i].name : i \in { i \in 1..Len(employees) :
                /\ Len(employees[i].name) > 0
                /\ \E j \in 1..Len(employees) :
                      j # i /\ employees[j].name = employees[i].name } }
    IN  [errors |-> IF duplicate_ids # {} THEN << "IDs duplicados" >> ELSE <<>>,
         warnings |-> IF duplicate_names # {} THEN << "Nomes duplicados" >> ELSE <<>>]

MaxRecords == 3

N_Ana == <<"A", "n", "a">>
N_AnaMaria == <<"A", "n", "a", " ", "M", "a", "r", "i", "a">>

\* name and admission_date of a source row
InfoPool ==
    { <<N_Ana, NoneValue>>, <<N_Ana, MkDate(2024, 6, 10)>>, <<N_AnaMaria, NoneValue>> }

RecordPool ==
    { [id |-> id, status |-> st, name |-> info[1], admission_date |-> info[2]] :
        id \in {1, 2}, st \in {"ATIVO", "DESLIGADO", "EXTERIOR"}, info \in InfoPool }

RecordLists == UNION { [1..n -> RecordPool] : n \in 0..MaxRecords }

DedupInit == dedup_input = <<>> /\ dedup_output = <<>>

RemoveDuplicates ==
    /\ dedup_input = <<>>
    /\ \E employees \in RecordLists \ {<<>>} :
        /\ dedup_input' = employees
        /\ dedup_output' = remove_duplicates(employees)
    /\ UNCHANGED notDedup

DedupReturn ==
    /\ dedup_input # <<>>
    /\ dedup_input' = <<>>
    /\ dedup_output' = <<>>
    /\ UNCHANGED notDedup

DedupNext == RemoveDuplicates \/ DedupReturn

-----------------------------------------------------------------------------
(* The pipeline: DataConsolidatorAgent.consolidate_employee_data followed by *)
(* CalculatorAgent.calculate_benefits_for_employees, run twice               *)

\* DateUtils.parse_date(date_str): strptime of a string, None for a value
\* that is not a string or does not parse
parse_date(v) == IF v.kind = "str" THEN AsDate(v) ELSE NoneValue

\* DataConsolidatorAgent._create_employee_from_row(row, source)
create_employee_from_row(row, source) ==
    Employee(row.ID, row.Cargo, source, parse_date(row.Data_Admissao),
             parse_date(row.Data_Desligamento), <<NoneValue, NoneValue>>)
    @@ [name |-> row.Nome, admission_date |-> parse_date(row.Data_Admissao)]

\* the row loop of _consolidate_active_employees / _consolidate_termination_employees
EmployeesFromRows(rows, source) ==
    [k \in 1..Len(rows) |-> create_employee_from_row(rows[k], source)]

\* _apply_foreign_data: for each row of the exterior file, the first employee
\* of the list with that ID gets status EXTERIOR
RECURSIVE apply_foreign_data(_, _, _)
apply_foreign_data(employees, exterior, k) ==
    IF k > Len(exterior) THEN employees
    ELSE LET hits == { i \in 1..Len(employees) : employees[i].id = exterior[k] }
         IN  IF hits = {} THEN apply_foreign_data(employees, exterior, k + 1)
             ELSE LET first == CHOOSE i \in hits : \A j \in hits : i <= j
                  IN  apply_foreign_data([employees EXCEPT ![first].status = "EXTERIOR"],
                                         exterior, k + 1)

ConsolidationSteps ==
    << "active_employees", "termination_employees", "complementary_data",
       "remove_duplicates", "validation", "consolidation_complete" >>

\* DataConsolidatorAgent.consolidate_employee_data(uploaded_files) on an agent
\* whose consolidation_log is the one given
consolidate_employee_data(uploaded_files, consolidation_log) ==
    LET active_employees == EmployeesFromRows(uploaded_files.ativos, "ATIVO")
        termination_employees == EmployeesFromRows(uploaded_files.desligados, "DESLIGADO")
        all_employees == active_employees \o termination_employees
        enriched_employees == apply_foreign_data(all_employees, uploaded_files.exterior, 1)
    IN  [success |-> TRUE,
         data |-> remove_duplicates(enriched_employees),
         consolidation_log |-> consolidation_log \o ConsolidationSteps]

load_reference_data_firstcallonly(uploaded_files, calculation_log) ==
    [reference_data |-> IF calculation_log = <<>> THEN uploaded_files.base_sindicato_valor
                        ELSE NoTable,
     calculation_log |-> Append(calculation_log, "load_reference_data")]

\* CalculatorAgent._load_reference_data(uploaded_files) on an agent whose
\* calculation_log is the one given
load_reference_data(uploaded_files, calculation_log) ==
    [reference_data |-> uploaded_files.base_sindicato_valor,
     calculation_log |-> Append(calculation_log, "load_reference_data")]

\* filtered_employees of _apply_exclusion_rules, as indexes of the batch
BatchFiltered(employees) ==
    SelectSeq([k \in 1..Len(employees) |-> k],
              LAMBDA k : ~should_exclude_employee(employees[k]))

\* the loop body of _calculate_working_days
WithWorkingDays(employee, m, y) ==
    [employee EXCEPT !.working_days = calculate_employee_working_days(employee, m, y)]

\* the loop body of _calculate_vr_va_values
WithBenefit(employee, table) ==
    [employee EXCEPT !.benefits =
        << MkBenefit(employee, calculate_vr_value_of(employee, table)) >>]

\* _calculate_working_days, _calculate_vr_va_values and _apply_specific_rules
\* on one employee of filtered_employees
EmployeeCalculated(employee, m, y, table) ==
    ApplySpecificRulesTo(WithBenefit(WithWorkingDays(employee, m, y), table), m, y)

\* the Employee objects of the batch when the five steps have run
BatchObjects(employees, m, y, table) ==
    [k \in 1..Len(employees) |->
        IF should_exclude_employee(employees[k]) THEN ExcludeEmployee(employees[k])
        ELSE EmployeeCalculated(employees[k], m, y, table)]

CalculationSteps ==
    << "exclusion_rules", "working_days_calculation", "vr_va_calculation",
       "specific_rules", "calculation_complete" >>

\* the dictionary returned, with the objects it refers to
BenefitsResult(objects, filtered, calculation_log) ==
    [success |-> TRUE,
     employees |-> objects,
     data |-> [i \in 1..Len(filtered) |-> objects[filtered[i]]],
     calculation_log |-> calculation_log \o CalculationSteps]

\* CalculatorAgent.calculate_benefits_for_employees(employees, month, year,
\* uploaded_files) on an agent whose calculation_log is the one given
calculate_benefits_for_employees(employees, m, y, uploaded_files, calculation_log) ==
    BenefitsResult(
        BatchObjects(employees, m, y,
                     load_reference_data(uploaded_files, calculation_log).reference_data),
        BatchFiltered(employees),
        load_reference_data(uploaded_files, calculation_log).calculation_log)

MaxRows == 2

RowPool ==
    { [ID |-> 1, Nome |-> N_Ana, Cargo |-> P_Analista,
       Data_Admissao |-> StrDate(2024, 6, 10), Data_Desligamento |-> NoneValue],
      [ID |-> 1, Nome |-> N_AnaMaria, Cargo |-> P_Analista,
       Data_Admissao |-> StrDate(2025, 1, 20), Data_Desligamento |-> StrDate(2025, 1, 30)],
      [ID |-> 2, Nome |-> N_Ana, Cargo |-> P_DiretorFinanceiro,
       Data_Admissao |-> StrDate(2024, 6, 10), Data_Desligamento |-> StrDate(2025, 1, 10)],
      [ID |-> 2, Nome |-> N_AnaMaria, Cargo |-> P_ESTAGIARIO,
       Data_Admissao |-> BadStr, Data_Desligamento |-> NoneValue] }

RowLists(n) == UNION { [1..k -> RowPool] : k \in 0..n }

UnionTable ==
    Table(<< [Cargo |-> <<"A", "n", "a", "l", "i", "s", "t", "a">>, Valor_Diario |-> Money(50, 0)] >>)

\* uploaded_files: the categories present and their rows
UploadedFiles ==
    { [ativos |-> a, desligados |-> d, exterior |-> x, base_sindicato_valor |-> t] :
        a \in RowLists(MaxRows), d \in RowLists(1), x \in {<<>>, <<1>>},
        t \in {NoTable, UnionTable} }

NoFiles == [ativos |-> <<>>, desligados |-> <<>>, exterior |-> <<>>,
            base_sindicato_valor |-> NoTable]
NoAgents == [consolidation_log |-> <<>>, calculation_log |-> <<>>]

PipeInit ==
    /\ pipe_pc = "idle"
    /\ pipe_files = NoFiles
    /\ pipe_reuse = FALSE
    /\ pipe_agents = NoAgents
    /\ pipe_employees = <<>>
    /\ pipe_outputs = <<>>

\* the caller creates the two agents and starts the first run
PipelineStart ==
    /\ pipe_pc = "idle"
    /\ \E files \in UploadedFiles, reuse \in BOOLEAN :
        /\ pipe_files' = files
        /\ pipe_reuse' = reuse
    /\ pipe_agents' = NoAgents
    /\ pipe_employees' = <<>>
    /\ pipe_outputs' = <<>>
    /\ pipe_pc' = "consolidate"
    /\ UNCHANGED notPipe

PipelineConsolidate ==
    /\ pipe_pc = "consolidate"
    /\ \E r \in { consolidate_employee_data(pipe_files, pipe_agents.consolidation_log) } :
           /\ pipe_employees' = r.data
           /\ pipe_agents' = [pipe_agents EXCEPT !.consolidation_log = r.consolidation_log]
    /\ pipe_pc' = "calculate"
    /\ UNCHANGED <<pipe_files, pipe_reuse, pipe_outputs, notPipe>>

\* the output of a run is what the two calls returned, as it is at the return
PipelineCalculate ==
    /\ pipe_pc = "calculate"
    /\ \E r \in { calculate_benefits_for_employees(pipe_employees, 1, 2025, pipe_files,
                                                      pipe_agents.calculation_log) } :
           /\ pipe_employees' = r.employees
           /\ pipe_agents' = [pipe_agents EXCEPT !.calculation_log = r.calculation_log]
           /\ pipe_outputs' = Append(pipe_outputs,
                                [employees |-> r.employees, data |-> r.data,
                                 consolidation_log |-> pipe_agents.consolidation_log,
                                 calculation_log |-> r.calculation_log])
    /\ pipe_pc' = "ran"
    /\ UNCHANGED <<pipe_files, pipe_reuse, notPipe>>

\* the second run on the same files, with the same agents or with new ones
PipelineRunAgain ==
    /\ pipe_pc = "ran"
    /\ Len(pipe_outputs) = 1
    /\ pipe_agents' = IF pipe_reuse THEN pipe_agents ELSE NoAgents
    /\ pipe_employees' = <<>>
    /\ pipe_pc' = "consolidate"
    /\ UNCHANGED <<pipe_files, pipe_reuse, pipe_outputs, notPipe>>

PipelineReturn ==
    /\ pipe_pc = "ran"
    /\ Len(pipe_outputs) = 2
    /\ pipe_pc' = "idle"
    /\ pipe_files' = NoFiles
    /\ pipe_reuse' = FALSE
    /\ pipe_agents' = NoAgents
    /\ pipe_employees' = <<>>
    /\ pipe_outputs' = <<>>
    /\ UNCHANGED notPipe

PipeNext ==
    \/ PipelineStart
    \/ PipelineConsolidate
    \/ PipelineCalculate
    \/ PipelineRunAgain
    \/ PipelineReturn

-----------------------------------------------------------------------------
(* The daily rate of one employee: CalculatorAgent._calculate_vr_value       *)

MaxTableRows == 2

P_Empty == <<>>
P_AnalistaSenior == <<"A", "N", "A", "L", "I", "S", "T", "A", " ", "S", "E", "N", "I", "O", "R">>

LookupPositions ==
    { P_Analista, P_AnalistaSenior, P_DiretorFinanceiro, P_ESTAGIARIO, P_Empty }

\* rows of the union-rate table: Cargo and Valor_Diario
TableRowPool ==
    { [Cargo |-> <<"A", "n", "a", "l", "i", "s", "t", "a">>, Valor_Diario |-> Money(50, 0)],
      [Cargo |-> <<"s", "e", "n", "i", "o", "r">>, Valor_Diario |-> Money(60, 0)],
      [Cargo |-> <<"e", "s", "t", "a", "g", "i">>, Valor_Diario |-> Money(30, 0)],
      [Cargo |-> <<"G", "e", "r", "e", "n", "t", "e">>, Valor_Diario |-> Money(40, 0)],
      [Cargo |-> NaN, Valor_Diario |-> Money(35, 0)] }

LookupTables ==
    {NoTable} \cup UNION { { Table(rows) : rows \in [1..n -> TableRowPool] } :
                            n \in 0..MaxTableRows }

NoLookup == [op |-> "none", position |-> <<>>, working_days |-> 0, table |-> NoTable]
NoVrCalculation == [daily_value |-> 0, total_value |-> 0, working_days |-> 0]

LookupInit == lookup_call = NoLookup /\ lookup_result = NoVrCalculation

\* _calculate_vr_value(employee, reference_data) for an employee of the batch
CalculateVrValueOf ==
    /\ lookup_call.op = "none"
    /\ \E position \in LookupPositions, table \in LookupTables, days \in {0, 22} :
        /\ lookup_call' = [op |-> "_calculate_vr_value", position |-> position,
                           working_days |-> days, table |-> table]
        /\ lookup_result' =
              calculate_vr_value_of(
                 [Employee(1, position, "ATIVO", NoneValue, NoneValue,
                           <<NoneValue, NoneValue>>) EXCEPT !.working_days = days],
                 table)
    /\ UNCHANGED notLookup

LookupReturn ==
    /\ lookup_call.op # "none"
    /\ lookup_call' = NoLookup
    /\ lookup_result' = NoVrCalculation
    /\ UNCHANGED notLookup

LookupNext == CalculateVrValueOf \/ LookupReturn

-----------------------------------------------------------------------------
(* A run: CoordinatorAgent.process_vr_va_request, or the agents called one   *)
(* after the other by process_files_with_basic_agents                        *)

\* required_files of CoordinatorAgent._validate_input_files and of
\* ValidatorAgent._validate_data_integrity
RequiredFiles ==
    { "ativos", "admissao", "desligados", "ferias", "afastamentos", "estagio",
      "aprendiz", "exterior", "base_dias_uteis", "base_sindicato_valor", "vr_mensal" }

\* what a call hands back: a dictionary with success and message, or an
\* exception that leaves the call
Result(success, message) == [raised |-> FALSE, success |-> success, message |-> message]
Propagated == [raised |-> TRUE, success |-> FALSE, message |-> ""]
NoOutcome == [raised |-> FALSE, success |-> FALSE, message |-> "none"]

process_vr_va_request_except_logoutside(step) ==
    IF step = "log" THEN Propagated ELSE Result(FALSE, "Erro no processamento")

\* the except branch of process_vr_va_request, for an exception raised in
\* the step named
process_vr_va_request_except(step) == Result(FALSE, "Erro no processamento")

\* the except branch of consolidate_employee_data
consolidate_employee_data_except(step) == Result(FALSE, "Erro na consolidação")

\* the except branch of calculate_benefits_for_employees
calculate_benefits_for_employees_except(step) == Result(FALSE, "Erro nos cálculos")

\* ExcelHandler.validate_file_structure(file): valid unless the file is one
\* of those with a broken structure
validate_file_structure(file_name, invalid) ==
    [valid |-> file_name \notin invalid,
     errors |-> IF file_name \in invalid THEN <<"estrutura">> ELSE <<>>]

\* CoordinatorAgent._validate_input_files(uploaded_files), the files given by
\* the categories present and those with a broken structure
validate_input_files(present, invalid) ==
    LET missing_files == RequiredFiles \ present
        with_errors == { f \in RequiredFiles \cap present :
                           ~validate_file_structure(f, invalid).valid }
    IN  IF missing_files # {}
        THEN Result(FALSE, "Arquivos obrigatórios não encontrados")
        ELSE IF with_errors # {}
        THEN Result(FALSE, "Erros de validação encontrados")
        ELSE Result(TRUE, "Validação concluída com sucesso")

validate_uploaded_files_failonerrors(present, invalid) ==
    IF (RequiredFiles \ present) # {} \/ (present \cap invalid) # {}
    THEN Result(FALSE, "Validação concluída")
    ELSE Result(TRUE, "Validação concluída")

\* ValidatorAgent.validate_uploaded_files(uploaded_files): the errors of the
\* files are counted, the result of _validate_data_integrity is not read,
\* and the dictionary returned has success True
validate_uploaded_files(present, invalid) == Result(TRUE, "Validação concluída")

\* the rows a category gives: none when the category is not in uploaded_files
FilesRead(files, present) ==
    [ativos |-> IF "ativos" \in present THEN files.ativos ELSE <<>>,
     desligados |-> IF "desligados" \in present THEN files.desligados ELSE <<>>,
     exterior |-> files.exterior,
     base_sindicato_valor |-> IF "base_sindicato_valor" \in present
                              THEN files.base_sindicato_valor ELSE NoTable]

\* CoordinatorAgent._consolidate_data: the employees of ativos, then of desligados
coordinator_consolidate_data(files) ==
    EmployeesFromRows(files.ativos, "ATIVO") \o EmployeesFromRows(files.desligados, "DESLIGADO")

\* the loop body of CoordinatorAgent._apply_business_rules
coordinator_apply_business_rules(employee, m, y) ==
    IF should_exclude_employee(employee)
    THEN [employee EXCEPT !.status = "EXCLUIDO", !.exclusion_reason = R_RegraAplicada]
    ELSE apply_specific_rules(WithWorkingDays(employee, m, y), m, y)

\* BusinessRules.calculate_vr_value(employee) as the coordinator calls it
calculate_vr_value_for(employee) ==
    [daily_value |-> DefaultDailyValue,
     total_value |-> calculate_vr_value(employee.working_days, DefaultDailyValue).total,
     working_days |-> employee.working_days]

coordinator_calculate_benefits_noskip(employee) ==
    [employee EXCEPT !.benefits = << MkBenefit(employee, calculate_vr_value_for(employee)) >>]

\* the loop body of CoordinatorAgent._calculate_benefits
coordinator_calculate_benefits(employee) ==
    IF employee.status = "EXCLUIDO" THEN employee
    ELSE [employee EXCEPT !.benefits =
            << MkBenefit(employee, calculate_vr_value_for(employee)) >>]

MaxRunRows == 1

\* the categories that are missing, and those whose file is broken
FileProblems ==
    { <<{}, {}>>, <<{"ativos"}, {}>>, <<{"vr_mensal"}, {}>>,
      <<{"ferias", "exterior"}, {}>>, <<{}, {"admissao"}>> }

\* the step in which an exception is raised (an unreadable file, a value of
\* the wrong type, a full disk), if any
Faults == { "none", "validation", "consolidation", "employee_validation",
            "business_rules", "benefits", "report", "log" }

RunFiles ==
    { [ativos |-> a, desligados |-> d, exterior |-> <<>>, base_sindicato_valor |-> NoTable] :
        a \in RowLists(MaxRunRows), d \in RowLists(1) }

NoRun == [path |-> "none", files |-> NoFiles, present |-> {}, invalid |-> {},
          fault |-> "none"]

RunInit ==
    /\ run_pc = "idle"
    /\ run_input = NoRun
    /\ run_employees = <<>>
    /\ run_steps = <<>>
    /\ run_calls = <<>>

Call(name, outcome) == [fn |-> name, outcome |-> outcome]

\* a step ends the run with the dictionary the entry point returns
RunEnds(step, calls) ==
    /\ run_steps' = Append(run_steps, step)
    /\ run_calls' = run_calls \o calls
    /\ run_pc' = "done"
    /\ UNCHANGED <<run_input, run_employees, notRun>>

\* a step hands over to the next one
RunGoesOn(step, calls, employees, next) ==
    /\ run_steps' = Append(run_steps, step)
    /\ run_calls' = run_calls \o calls
    /\ run_employees' = employees
    /\ run_pc' = next
    /\ UNCHANGED <<run_input, notRun>>

RunStart ==
    /\ run_pc = "idle"
    /\ \E path \in {"coordinator", "agents"}, files \in RunFiles,
          problem \in FileProblems, fault \in Faults :
        run_input' = [path |-> path, files |-> files,
                      present |-> RequiredFiles \ problem[1],
                      invalid |-> problem[2], fault |-> fault]
    /\ run_pc' = "validation"
    /\ run_employees' = <<>>
    /\ run_steps' = <<>>
    /\ run_calls' = <<>>
    /\ UNCHANGED notRun

\* process_vr_va_request, step 1: _validate_input_files
CoordinatorValidate ==
    /\ run_pc = "validation" /\ run_input.path = "coordinator"
    /\ IF run_input.fault = "validation"
       THEN RunEnds("validation",
                    << Call("process_vr_va_request", process_vr_va_request_except("validation")) >>)
       ELSE IF ~validate_input_files(run_input.present, run_input.invalid).success
       THEN RunEnds("validation",
                    << Call("process_vr_va_request",
                            validate_input_files(run_input.present, run_input.invalid)) >>)
       ELSE RunGoesOn("validation", <<>>, run_employees, "consolidation")

\* step 2: _consolidate_data
CoordinatorConsolidate ==
    /\ run_pc = "consolidation" /\ run_input.path = "coordinator"
    /\ IF run_input.fault = "consolidation"
       THEN RunEnds("consolidation",
                    << Call("process_vr_va_request", Result(FALSE, "Erro na consolidação")) >>)
       ELSE RunGoesOn("consolidation", <<>>,
                      coordinator_consolidate_data(FilesRead(run_input.files, run_input.present)),
                      "business_rules")

\* step 3: _apply_business_rules
CoordinatorApplyBusinessRules ==
    /\ run_pc = "business_rules" /\ run_input.path = "coordinator"
    /\ IF run_input.fault = "business_rules"
       THEN RunEnds("business_rules",
                    << Call("process_vr_va_request",
                            Result(FALSE, "Erro na aplicação de regras")) >>)
       ELSE RunGoesOn("business_rules", <<>>,
                      [k \in 1..Len(run_employees) |->
                          coordinator_apply_business_rules(run_employees[k], 1, 2025)],
                      "benefits")

\* step 4: _calculate_benefits
CoordinatorCalculateBenefits ==
    /\ run_pc = "benefits" /\ run_input.path = "coordinator"
    /\ IF run_input.fault = "benefits"
       THEN RunEnds("benefits",
                    << Call("process_vr_va_request",
                            Result(FALSE, "Erro no cálculo de benefícios")) >>)
       ELSE RunGoesOn("benefits", <<>>,
                      [k \in 1..Len(run_employees) |->
                          coordinator_calculate_benefits(run_employees[k])],
                      "report")

\* step 5: _generate_report
CoordinatorGenerateReport ==
    /\ run_pc = "report" /\ run_input.path = "coordinator"
    /\ IF run_input.fault = "report"
       THEN RunEnds("report",
                    << Call("process_vr_va_request",
                            Result(FALSE, "Erro na geração do relatório")) >>)
       ELSE RunGoesOn("report", <<>>, run_employees, "log")

\* step 6: _log_processing_success and the dictionary returned
CoordinatorLogSuccess ==
    /\ run_pc = "log" /\ run_input.path = "coordinator"
    /\ IF run_input.fault = "log"
       THEN RunEnds("log",
                    << Call("process_vr_va_request", process_vr_va_request_except("log")) >>)
       ELSE RunEnds("log",
                    << Call("process_vr_va_request",
                            Result(TRUE, "Processamento concluído com sucesso")) >>)

\* process_files_with_basic_agents, step 1: validator.validate_uploaded_files
AgentsValidate ==
    /\ run_pc = "validation" /\ run_input.path = "agents"
    /\ IF run_input.fault = "validation"
       THEN RunEnds("validation",
                    << Call("validate_uploaded_files", Result(FALSE, "Erro na validação")) >>)
       ELSE IF ~validate_uploaded_files(run_input.present, run_input.invalid).success
       THEN RunEnds("validation",
                    << Call("validate_uploaded_files",
                            validate_uploaded_files(run_input.present, run_input.invalid)) >>)
       ELSE RunGoesOn("validation",
                      << Call("validate_uploaded_files",
                              validate_uploaded_files(run_input.present, run_input.invalid)) >>,
                      run_employees, "consolidation")

\* step 2: consolidator.consolidate_employee_data
AgentsConsolidate ==
    /\ run_pc = "consolidation" /\ run_input.path = "agents"
    /\ IF run_input.fault = "consolidation"
       THEN RunEnds("consolidation",
                    << Call("consolidate_employee_data",
                            consolidate_employee_data_except("consolidation")) >>)
       ELSE RunGoesOn("consolidation",
                      << Call("consolidate_employee_data",
                              Result(TRUE, "Consolidação concluída")) >>,
                      consolidate_employee_data(FilesRead(run_input.files, run_input.present),
                                                <<>>).data,
                      "employee_validation")

\* step 3: validator.validate_employee_data; a failure is shown as a warning
\* and the run goes on
AgentsValidateEmployees ==
    /\ run_pc = "employee_validation" /\ run_input.path = "agents"
    /\ IF run_input.fault = "employee_validation"
       THEN RunGoesOn("employee_validation",
                      << Call("validate_employee_data",
                              Result(FALSE, "Erro na validação de funcionários")) >>,
                      run_employees, "benefits")
       ELSE RunGoesOn("employee_validation",
                      << Call("validate_employee_data",
                              Result(TRUE, "Validação de funcionários")) >>,
                      run_employees, "benefits")

\* step 4: calculator.calculate_benefits_for_employees
AgentsCalculate ==
    /\ run_pc = "benefits" /\ run_input.path = "agents"
    /\ IF run_input.fault = "benefits"
       THEN RunEnds("benefits",
                    << Call("calculate_benefits_for_employees",
                            calculate_benefits_for_employees_except("benefits")) >>)
       ELSE RunGoesOn("benefits",
                      << Call("calculate_benefits_for_employees",
                              Result(TRUE, "Cálculos concluídos")) >>,
                      calculate_benefits_for_employees(
                          run_employees, 1, 2025,
                          FilesRead(run_input.files, run_input.present), <<>>).employees,
                      "report")

\* step 5: reporter.generate_comprehensive_report
AgentsReport ==
    /\ run_pc = "report" /\ run_input.path = "agents"
    /\ IF run_input.fault = "report"
       THEN RunEnds("report",
                    << Call("generate_comprehensive_report",
                            Result(FALSE, "Erro na geração de relatórios")) >>)
       ELSE RunEnds("report",
                    << Call("generate_comprehensive_report", Result(TRUE, "Relatórios gerados")) >>)

RunReturn ==
    /\ run_pc = "done"
    /\ run_pc' = "idle"
    /\ run_input' = NoRun
    /\ run_employees' = <<>>
    /\ run_steps' = <<>>
    /\ run_calls' = <<>>
    /\ UNCHANGED notRun

RunNext ==
    \/ RunStart
    \/ CoordinatorValidate
    \/ CoordinatorConsolidate
    \/ CoordinatorApplyBusinessRules
    \/ CoordinatorCalculateBenefits
    \/ CoordinatorGenerateReport
    \/ CoordinatorLogSuccess
    \/ AgentsValidate
    \/ AgentsConsolidate
    \/ AgentsValidateEmployees
    \/ AgentsCalculate
    \/ AgentsReport
    \/ RunReturn

-----------------------------------------------------------------------------
(* A batch with records whose working days cannot be computed                *)

\* the computation of the employee's working days raises (a date string
\* that strptime rejects, an admission date that is None)
FailsWorkingDays(employee, m, y) == EmployeeDaysBody(employee, m, y).raised

RECURSIVE calculate_working_days_loop(_, _, _, _, _)
\* the for loop of _calculate_working_days from the i-th employee of the list on
calculate_working_days_loop(objects, list, i, m, y) ==
    IF i > Len(list) THEN objects
    ELSE calculate_working_days_loop(
            [objects EXCEPT ![list[i]] = WithWorkingDays(objects[list[i]], m, y)],
            list, i + 1, m, y)

\* the employees of the list before the first one whose computation raises
BeforeFirstFailure(objects, list, m, y) ==
    SubSeq(list, 1,
           IF \E i \in 1..Len(list) : FailsWorkingDays(objects[list[i]], m, y)
           THEN (CHOOSE i \in 1..Len(list) :
                    /\ FailsWorkingDays(objects[list[i]], m, y)
                    /\ \A j \in 1..(i - 1) : ~FailsWorkingDays(objects[list[j]], m, y)) - 1
           ELSE Len(list))

calculate_working_days_of_employees_abortonfailure(objects, list, m, y) ==
    calculate_working_days_loop(objects, BeforeFirstFailure(objects, list, m, y), 1, m, y)

\* CalculatorAgent._calculate_working_days(employees, month, year, reference_data)
calculate_working_days_of_employees(objects, list, m, y) ==
    calculate_working_days_loop(objects, list, 1, m, y)

\* steps 3 to 5 on the employees of the list, and the objects of the batch
calculate_values_and_rules(objects, list, m, y, table) ==
    [k \in 1..Len(objects) |->
        IF InList(k, list)
        THEN ApplySpecificRulesTo(WithBenefit(objects[k], table), m, y)
        ELSE objects[k]]

MaxFailBatch == 3

\* a full month, an admission date that is not a date (the object held 5
\* working days from an earlier calculation), a termination date that is
\* not a date, a director, an admission on the 20th
FailPool ==
    { Employee(1, P_Analista, "ATIVO", MkDate(2024, 6, 10), NoneValue, <<NoneValue, NoneValue>>),
      [Employee(2, P_Analista, "ATIVO", BadStr, NoneValue, <<NoneValue, NoneValue>>)
          EXCEPT !.working_days = 5],
      Employee(3, P_Analista, "DESLIGADO", MkDate(2024, 6, 10), BadStr, <<NoneValue, NoneValue>>),
      Employee(4, P_DiretorFinanceiro, "ATIVO", MkDate(2024, 6, 10), NoneValue, <<NoneValue, NoneValue>>),
      Employee(5, P_Analista, "ADMISSAO", MkDate(2025, 1, 20), NoneValue, <<NoneValue, NoneValue>>) }

\* lists of at most MaxFailBatch employees with different ids
FailBatches ==
    { b \in UNION { [1..n -> FailPool] : n \in 0..MaxFailBatch } :
        \A i, j \in 1..Len(b) : i # j => b[i].id # b[j].id }

BatchInit ==
    /\ batch_pc = "idle"
    /\ batch_input = <<>>
    /\ batch_employees = <<>>
    /\ batch_list = <<>>
    /\ batch_success = FALSE

\* calculate_benefits_for_employees is called; _load_reference_data finds no table
BatchStart ==
    /\ batch_pc = "idle"
    /\ \E b \in FailBatches :
        /\ batch_input' = b
        /\ batch_employees' = b
    /\ batch_list' = <<>>
    /\ batch_success' = FALSE
    /\ batch_pc' = "exclusion_rules"
    /\ UNCHANGED notBatch

\* _apply_exclusion_rules
BatchExclusionRules ==
    /\ batch_pc = "exclusion_rules"
    /\ batch_employees' =
         [k \in 1..Len(batch_employees) |->
            IF should_exclude_employee(batch_employees[k])
            THEN ExcludeEmployee(batch_employees[k]) ELSE batch_employees[k]]
    /\ batch_list' = BatchFiltered(batch_employees)
    /\ batch_pc' = "working_days"
    /\ UNCHANGED <<batch_input, batch_success, notBatch>>

\* _calculate_working_days
BatchWorkingDays ==
    /\ batch_pc = "working_days"
    /\ batch_employees' =
         calculate_working_days_of_employees(batch_employees, batch_list, 1, 2025)
    /\ batch_pc' = "vr_va_values"
    /\ UNCHANGED <<batch_input, batch_list, batch_success, notBatch>>

\* _calculate_vr_va_values, _apply_specific_rules, the summary and the return
BatchValues ==
    /\ batch_pc = "vr_va_values"
    /\ batch_employees' =
         calculate_values_and_rules(batch_employees, batch_list, 1, 2025, NoTable)
    /\ batch_success' = TRUE
    /\ batch_pc' = "done"
    /\ UNCHANGED <<batch_input, batch_list, notBatch>>

BatchReturn ==
    /\ batch_pc = "done"
    /\ batch_pc' = "idle"
    /\ batch_input' = <<>>
    /\ batch_employees' = <<>>
    /\ batch_list' = <<>>
    /\ batch_success' = FALSE
    /\ UNCHANGED notBatch

BatchNext ==
    \/ BatchStart
    \/ BatchExclusionRules
    \/ BatchWorkingDays
    \/ BatchValues
    \/ BatchReturn

-----------------------------------------------------------------------------
(* CalculatorAgent.validate_calculations                                     *)

\* an entry of errors or warnings: what was found, for which employee
Finding(what, employee) == [what |-> what, id |-> employee.id]

working_days_findings_highiserror(employee) ==
    IF employee.working_days < 0 \/ employee.working_days > 31
    THEN [errors |-> << Finding("Dias úteis negativos", employee) >>, warnings |-> <<>>]
    ELSE [errors |-> <<>>, warnings |-> <<>>]

\* "Validar dias úteis"
working_days_findings(employee) ==
    IF employee.working_days < 0
    THEN [errors |-> << Finding("Dias úteis negativos", employee) >>, warnings |-> <<>>]
    ELSE IF employee.working_days > 31
    THEN [errors |-> <<>>, warnings |-> << Finding("Dias úteis muito altos", employee) >>]
    ELSE [errors |-> <<>>, warnings |-> <<>>]

\* the body of the loop over employee.benefits
benefit_findings(employee, benefit) ==
    [errors |->
        (IF benefit.total_value < 0
         THEN << Finding("Valor total negativo", employee) >> ELSE <<>>)
        \o (IF benefit.daily_value < 0
            THEN << Finding("Valor diário negativo", employee) >> ELSE <<>>),
     warnings |->
        IF \/ benefit.total_value - benefit.daily_value * employee.working_days > Tolerance
           \/ benefit.daily_value * employee.working_days - benefit.total_value > Tolerance
        THEN << Finding("Inconsistência no cálculo", employee) >> ELSE <<>>]

RECURSIVE benefits_findings(_, _)
\* "Validar benefícios": the loop from the i-th benefit on
benefits_findings(employee, i) ==
    IF i > Len(employee.benefits) THEN [errors |-> <<>>, warnings |-> <<>>]
    ELSE [errors |-> benefit_findings(employee, employee.benefits[i]).errors
                        \o benefits_findings(employee, i + 1).errors,
          warnings |-> benefit_findings(employee, employee.benefits[i]).warnings
                        \o benefits_findings(employee, i + 1).warnings]

RECURSIVE validation_findings(_, _)
\* the loop over employees from the k-th on
validation_findings(employees, k) ==
    IF k > Len(employees) THEN [errors |-> <<>>, warnings |-> <<>>]
    ELSE [errors |-> working_days_findings(employees[k]).errors
                        \o benefits_findings(employees[k], 1).errors
                        \o validation_findings(employees, k + 1).errors,
          warnings |-> working_days_findings(employees[k]).warnings
                        \o benefits_findings(employees[k], 1).warnings
                        \o validation_findings(employees, k + 1).warnings]

\* CalculatorAgent.validate_calculations(employees)
validate_calculations(employees) ==
    [is_valid |-> Len(validation_findings(employees, 1).errors) = 0,
     errors |-> validation_findings(employees, 1).errors,
     warnings |-> validation_findings(employees, 1).warnings,
     total_employees_validated |-> Len(employees)]

MaxValidated == 2

ValidatedDays == { -1, 0, 22, 32 }

\* daily_value and total_value of the benefit attached, if any: 25 a day
\* for 22 days, a negative daily value, a negative total, a total that is
\* not the product
ValidatedBenefits ==
    { <<>>,
      << [daily_value |-> Money(25, 0), total_value |-> Money(550, 0)] >>,
      << [daily_value |-> 0 - Money(1, 0), total_value |-> Money(10, 0)] >>,
      << [daily_value |-> 0, total_value |-> 0 - Money(5, 0)] >>,
      << [daily_value |-> Money(25, 0), total_value |-> Money(550, 0)],
         [daily_value |-> Money(25, 0), total_value |-> Money(0, 20)] >> }

\* lists of at most MaxValidated employees, the k-th with id k
ValidatedLists ==
    UNION { { [k \in 1..n |-> [id |-> k, working_days |-> ds[k], benefits |-> bs[k]]] :
                ds \in [1..n -> ValidatedDays], bs \in [1..n -> ValidatedBenefits] } :
            n \in 0..MaxValidated }

NoValidation == [is_valid |-> FALSE, errors |-> <<>>, warnings |-> <<>>,
                 total_employees_validated |-> 0]

ValInit ==
    /\ val_pc = "idle"
    /\ val_employees = <<>>
    /\ val_result = NoValidation

\* validate_calculations is called on a list of employees
ValidateCalculations ==
    /\ val_pc = "idle"
    /\ \E employees \in ValidatedLists :
        /\ val_employees' = employees
        /\ val_result' = validate_calculations(employees)
    /\ val_pc' = "done"
    /\ UNCHANGED notVal

ValReturn ==
    /\ val_pc = "done"
    /\ val_pc' = "idle"
    /\ val_employees' = <<>>
    /\ val_result' = NoValidation
    /\ UNCHANGED notVal

ValNext ==
    \/ ValidateCalculations
    \/ ValReturn

-----------------------------------------------------------------------------
(* schemas.validation.ValidationResult                                       *)

\* ValidationResult(arquivo, tipo_validacao, ...): the fields not given take
\* their defaults (valido True, the totals 0, the lists empty)
ValidationResult(valido, total_erros, total_warnings) ==
    [valido |-> valido, total_erros |-> total_erros, total_warnings |-> total_warnings,
     total_info |-> 0, erros |-> <<>>, warnings |-> <<>>, info |-> <<>>]

\* ValidationResult.adicionar_erro(erro)
adicionar_erro(self, erro) ==
    [self EXCEPT !.erros = Append(self.erros, erro),
                 !.total_erros = self.total_erros + 1,
                 !.valido = FALSE]

\* ValidationResult.adicionar_warning(warning)
adicionar_warning(self, warning) ==
    [self EXCEPT !.warnings = Append(self.warnings, warning),
                 !.total_warnings = self.total_warnings + 1]

\* ValidationResult.adicionar_info(info)
adicionar_info(self, info) ==
    [self EXCEPT !.info = Append(self.info, info),
                 !.total_info = self.total_info + 1]

RECURSIVE SumOf(_)
SumOf(counts) == IF Len(counts) = 0 THEN 0 ELSE Head(counts) + SumOf(Tail(counts))

\* the overall ValidationResult built by ValidatorAgent.validate_uploaded_files
\* from the numbers of errors and warnings of the files
overall_validation(file_errors, file_warnings) ==
    ValidationResult(SumOf(file_errors) = 0, SumOf(file_errors), SumOf(file_warnings))

MaxFindings == 2
MaxUploaded == 2

\* ValidationError(campo, mensagem)
ValidationErrors ==
    { [campo |-> "cargo", mensagem |-> "vazio"], [campo |-> "id", mensagem |-> "duplicado"] }

\* the numbers of errors, or of warnings, found in each of the files
FileCounts == UNION { [1..n -> 0..1] : n \in 0..MaxUploaded }

NoObject == [valido |-> TRUE, total_erros |-> 0, total_warnings |-> 0, total_info |-> 0,
             erros |-> <<>>, warnings |-> <<>>, info |-> <<>>]

VresInit ==
    /\ vres_origin = "none"
    /\ vres = NoObject

\* a ValidationResult is created with the defaults
NewValidationResult ==
    /\ vres_origin = "none"
    /\ vres' = ValidationResult(TRUE, 0, 0)
    /\ vres_origin' = "defaults"
    /\ UNCHANGED notVres

\* validate_uploaded_files creates its overall_validation
ValidateUploadedFiles ==
    /\ vres_origin = "none"
    /\ \E file_errors \in FileCounts :
       \E file_warnings \in [1..Len(file_errors) -> 0..1] :
           vres' = overall_validation(file_errors, file_warnings)
    /\ vres_origin' = "validate_uploaded_files"
    /\ UNCHANGED notVres

AdicionarErro ==
    /\ vres_origin # "none"
    /\ Len(vres.erros) < MaxFindings
    /\ \E erro \in ValidationErrors : vres' = adicionar_erro(vres, erro)
    /\ UNCHANGED <<vres_origin, notVres>>

AdicionarWarning ==
    /\ vres_origin # "none"
    /\ Len(vres.warnings) < MaxFindings
    /\ \E warning \in ValidationErrors : vres' = adicionar_warning(vres, warning)
    /\ UNCHANGED <<vres_origin, notVres>>

AdicionarInfo ==
    /\ vres_origin # "none"
    /\ Len(vres.info) < MaxFindings
    /\ \E info \in ValidationErrors : vres' = adicionar_info(vres, info)
    /\ UNCHANGED <<vres_origin, notVres>>

\* the object is dropped
VresDiscard ==
    /\ vres_origin # "none"
    /\ vres' = NoObject
    /\ vres_origin' = "none"
    /\ UNCHANGED notVres

VresNext ==
    \/ NewValidationResult
    \/ ValidateUploadedFiles
    \/ AdicionarErro
    \/ AdicionarWarning
    \/ AdicionarInfo
    \/ VresDiscard

-----------------------------------------------------------------------------
(* Enrichment: DataConsolidatorAgent._apply_complementary_data, followed by  *)
(* _remove_duplicates                                                        *)

P_APRENDIZ == <<"A", "P", "R", "E", "N", "D", "I", "Z">>

\* the assignments a row of the source makes on the employee it matches
SourceUpdate(source, employee, row) ==
    IF source = "ferias"
    THEN [employee EXCEPT !.vacation_start = parse_date(row.Inicio),
                          !.vacation_end = parse_date(row.Fim)]
    ELSE IF source = "afastamentos"
    THEN [employee EXCEPT !.leave_start = parse_date(row.Inicio),
                          !.leave_end = parse_date(row.Fim)]
    ELSE IF source = "estagio" THEN [employee EXCEPT !.position = P_ESTAGIARIO]
    ELSE IF source = "aprendiz" THEN [employee EXCEPT !.position = P_APRENDIZ]
    ELSE [employee EXCEPT !.status = "EXTERIOR"]

\* the inner loop `for employee in employees: if employee.id == employee_id:
\* ...; break`: the position of the first employee with the id, 0 if none
FirstWithId(employees, id) ==
    IF \E i \in 1..Len(employees) : employees[i].id = id
    THEN CHOOSE i \in 1..Len(employees) :
            /\ employees[i].id = id
            /\ \A j \in 1..(i - 1) : employees[j].id # id
    ELSE 0

RECURSIVE apply_rows(_, _, _, _)
\* the row loop of _apply_vacation_data, _apply_leave_data,
\* _apply_internship_data, _apply_apprentice_data and _apply_foreign_data,
\* from the k-th row on
apply_rows(employees, rows, k, source) ==
    IF k > Len(rows) THEN employees
    ELSE IF FirstWithId(employees, rows[k].ID) = 0
    THEN apply_rows(employees, rows, k + 1, source)
    ELSE apply_rows(
            [employees EXCEPT ![FirstWithId(employees, rows[k].ID)] =
                SourceUpdate(source, employees[FirstWithId(employees, rows[k].ID)], rows[k])],
            rows, k + 1, source)

RECURSIVE apply_in_order(_, _, _, _)
\* the sources applied one after the other, from the k-th of the order on
apply_in_order(employees, uploaded_files, order, k) ==
    IF k > Len(order) THEN employees
    ELSE apply_in_order(apply_rows(employees, uploaded_files[order[k]], 1, order[k]),
                        uploaded_files, order, k + 1)

\* the order of the calls in _apply_complementary_data
SourceOrder == << "ferias", "afastamentos", "estagio", "aprendiz", "exterior" >>

apply_complementary_data_internlast(employees, uploaded_files) ==
    apply_in_order(employees, uploaded_files,
                   << "ferias", "afastamentos", "aprendiz", "estagio", "exterior" >>, 1)

\* DataConsolidatorAgent._apply_complementary_data(employees, uploaded_files)
apply_complementary_data(employees, uploaded_files) ==
    apply_in_order(employees, uploaded_files, SourceOrder, 1)

MaxEnriched == 2

\* an employee built by _create_employee_from_row from a row of a source file
SourceEmployee(id, name, status) ==
    [id |-> id, name |-> name, position |-> P_Analista, status |-> status,
     admission_date |-> MkDate(2024, 6, 10),
     vacation_start |-> NoneValue, vacation_end |-> NoneValue,
     leave_start |-> NoneValue, leave_end |-> NoneValue]

\* all_employees: the active, admission and termination records, in this order
SourceEmployeeLists ==
    UNION { [1..n -> { SourceEmployee(1, name, status) :
                         name \in {N_Ana, N_AnaMaria}, status \in {"ATIVO", "DESLIGADO"} }
                     \cup { SourceEmployee(2, N_Ana, "ATIVO") }] : n \in 0..MaxEnriched }

DatedRow(id) == [ID |-> id, Inicio |-> StrDate(2025, 1, 6), Fim |-> StrDate(2025, 1, 10)]

\* the rows of the five complementary files
ComplementaryFiles ==
    { [ferias |-> f, afastamentos |-> a, estagio |-> e, aprendiz |-> p, exterior |-> x] :
        f \in {<<>>, <<DatedRow(1)>>}, a \in {<<>>, <<DatedRow(1)>>},
        e \in {<<>>, <<DatedRow(1)>>}, p \in {<<>>, <<DatedRow(1)>>},
        x \in {<<>>, <<DatedRow(1)>>, <<DatedRow(2)>>} }

NoComplementary ==
    [ferias |-> <<>>, afastamentos |-> <<>>, estagio |-> <<>>, aprendiz |-> <<>>,
     exterior |-> <<>>]

EnrichInit ==
    /\ enr_pc = "idle"
    /\ enr_files = NoComplementary
    /\ enr_all = <<>>
    /\ enr_employees = <<>>

\* consolidate_employee_data, step 4: _apply_complementary_data(all_employees)
ApplyComplementaryData ==
    /\ enr_pc = "idle"
    /\ \E employees \in SourceEmployeeLists, files \in ComplementaryFiles :
        /\ enr_all' = employees
        /\ enr_files' = files
        /\ enr_employees' = apply_complementary_data(employees, files)
    /\ enr_pc' = "enriched"
    /\ UNCHANGED notEnrich

\* step 5: _remove_duplicates(enriched_employees)
RemoveEnrichedDuplicates ==
    /\ enr_pc = "enriched"
    /\ enr_employees' = remove_duplicates(enr_employees)
    /\ enr_pc' = "consolidated"
    /\ UNCHANGED <<enr_files, enr_all, notEnrich>>

EnrichReturn ==
    /\ enr_pc = "consolidated"
    /\ enr_pc' = "idle"
    /\ enr_files' = NoComplementary
    /\ enr_all' = <<>>
    /\ enr_employees' = <<>>
    /\ UNCHANGED notEnrich

EnrichNext ==
    \/ ApplyComplementaryData
    \/ RemoveEnrichedDuplicates
    \/ EnrichReturn

-----------------------------------------------------------------------------
(* File cache (CacheManager)                                                 *)

\* what get returns for a key without a valid entry
None == "None"

\* max_age_hours of the constructor, in hours; the clock advances in hours
MaxAgeHours == 2

\* the file <md5 of the key>.cache: its pickled content and modification
\* time; distinct keys of the pool have distinct digests
NoFile == [exists |-> FALSE, data |-> None, mtime |-> 0]
CacheFile(value, now) == [exists |-> TRUE, data |-> value, mtime |-> now]

\* the variant that accepts an entry whose age equals max_age
is_cache_valid_inclusive(files, key, now) ==
    /\ files[key].exists
    /\ now - files[key].mtime <= MaxAgeHours

\* CacheManager._is_cache_valid(cache_path)
is_cache_valid(files, key, now) ==
    /\ files[key].exists
    /\ now - files[key].mtime < MaxAgeHours

\* CacheManager.get(key): the value returned
get(files, key, now) ==
    IF ~is_cache_valid(files, key, now) THEN None ELSE files[key].data

\* CacheManager.set(key, value): the directory after the call
set(files, key, value, now) == [files EXCEPT ![key] = CacheFile(value, now)]

\* CacheManager.delete(key): the directory after the call
delete(files, key) == [files EXCEPT ![key] = NoFile]

\* CacheManager.clear(): the directory after the call
clear(files) == [k \in DOMAIN files |-> NoFile]

ExpiredKeys(files, now) ==
    {k \in DOMAIN files : files[k].exists /\ ~is_cache_valid(files, k, now)}

\* CacheManager.cleanup_expired(): the directory after the call
cleanup_expired(files, now) ==
    [k \in DOMAIN files |-> IF k \in ExpiredKeys(files, now) THEN NoFile ELSE files[k]]

-----------------------------------------------------------------------------
(* Inputs of the file cache                                                  *)

MaxClock == 4

CacheKeys == {"k1", "k2"}
CacheValues == {"v1", "v2"}

NoCacheCall == [op |-> "none", key |-> "", value |-> None, data |-> None,
                ok |-> FALSE, removed |-> 0]

NeverSet == [set |-> FALSE, value |-> None, time |-> 0, removed |-> FALSE]

CacheInit ==
    /\ cache_files = [k \in CacheKeys |-> NoFile]
    /\ cache_now = 0
    /\ cache_call = NoCacheCall
    /\ cache_last = [k \in CacheKeys |-> NeverSet]

\* the entries an operation removed are marked in the history
MarkRemoved(before, after) ==
    [k \in CacheKeys |->
        IF before[k].exists /\ ~after[k].exists
        THEN [cache_last[k] EXCEPT !.removed = TRUE] ELSE cache_last[k]]

CacheGet ==
    /\ \E k \in CacheKeys :
        cache_call' = [NoCacheCall EXCEPT !.op = "get", !.key = k,
                                          !.data = get(cache_files, k, cache_now)]
    /\ UNCHANGED <<cache_files, cache_now, cache_last>>
    /\ UNCHANGED notCache

CacheSet ==
    /\ \E k \in CacheKeys, v \in CacheValues :
        /\ cache_files' = set(cache_files, k, v, cache_now)
        /\ cache_call' = [NoCacheCall EXCEPT !.op = "set", !.key = k, !.value = v,
                                             !.ok = TRUE]
        /\ cache_last' = [cache_last EXCEPT
                            ![k] = [set |-> TRUE, value |-> v, time |-> cache_now,
                                    removed |-> FALSE]]
    /\ UNCHANGED cache_now
    /\ UNCHANGED notCache

CacheDelete ==
    /\ \E k \in CacheKeys :
        /\ cache_files' = delete(cache_files, k)
        /\ cache_call' = [NoCacheCall EXCEPT !.op = "delete", !.key = k,
                                             !.ok = cache_files[k].exists]
    /\ cache_last' = MarkRemoved(cache_files, cache_files')
    /\ UNCHANGED cache_now
    /\ UNCHANGED notCache

CacheClear ==
    /\ cache_files' = clear(cache_files)
    /\ cache_call' = [NoCacheCall EXCEPT !.op = "clear", !.ok = TRUE]
    /\ cache_last' = MarkRemoved(cache_files, cache_files')
    /\ UNCHANGED cache_now
    /\ UNCHANGED notCache

CacheCleanupExpired ==
    /\ cache_files' = cleanup_expired(cache_files, cache_now)
    /\ cache_call' = [NoCacheCall EXCEPT
                        !.op = "cleanup_expired",
                        !.removed = Cardinality(ExpiredKeys(cache_files, cache_now))]
    /\ cache_last' = MarkRemoved(cache_files, cache_files')
    /\ UNCHANGED cache_now
    /\ UNCHANGED notCache

\* an hour passes
CacheTick ==
    /\ cache_now < MaxClock
    /\ cache_now' = cache_now + 1
    /\ UNCHANGED <<cache_files, cache_call, cache_last>>
    /\ UNCHANGED notCache

CacheNext ==
    \/ CacheGet
    \/ CacheSet
    \/ CacheDelete
    \/ CacheClear
    \/ CacheCleanupExpired
    \/ CacheTick

-----
CalIdle == cal_call = NoCall /\ cal_result = 0
EligIdle == elig_call = NoEligCall /\ elig_days = 0

CalcIdle == CalcInit
BenIdle == BenInit
DedupIdle == DedupInit
PipeIdle == PipeInit
LookupIdle == LookupInit
RunIdle == RunInit
BatchIdle == BatchInit
ValIdle == ValInit
VresIdle == VresInit
EnrichIdle == EnrichInit
CacheIdle == CacheInit

InitCalendar == CalInit /\ EligIdle /\ CalcIdle /\ BenIdle /\ DedupIdle /\ PipeIdle /\ LookupIdle /\ RunIdle /\ BatchIdle /\ ValIdle /\ VresIdle /\ EnrichIdle /\ CacheIdle
SpecCalendar == InitCalendar /\ [][CalNext]_vars

InitEligibility == EligInit /\ CalIdle /\ CalcIdle /\ BenIdle /\ DedupIdle /\ PipeIdle /\ LookupIdle /\ RunIdle /\ BatchIdle /\ ValIdle /\ VresIdle /\ EnrichIdle /\ CacheIdle
SpecEligibility == InitEligibility /\ [][EligNext]_vars

InitCalculator == CalcInit /\ CalIdle /\ EligIdle /\ BenIdle /\ DedupIdle /\ PipeIdle /\ LookupIdle /\ RunIdle /\ BatchIdle /\ ValIdle /\ VresIdle /\ EnrichIdle /\ CacheIdle
SpecCalculator == InitCalculator /\ [][CalcNext]_vars

InitBenefit == BenInit /\ CalIdle /\ EligIdle /\ CalcIdle /\ DedupIdle /\ PipeIdle /\ LookupIdle /\ RunIdle /\ BatchIdle /\ ValIdle /\ VresIdle /\ EnrichIdle /\ CacheIdle
SpecBenefit == InitBenefit /\ [][BenNext]_vars

InitDedup == DedupInit /\ CalIdle /\ EligIdle /\ CalcIdle /\ BenIdle /\ PipeIdle /\ LookupIdle /\ RunIdle /\ BatchIdle /\ ValIdle /\ VresIdle /\ EnrichIdle /\ CacheIdle
SpecDedup == InitDedup /\ [][DedupNext]_vars

InitPipe == PipeInit /\ CalIdle /\ EligIdle /\ CalcIdle /\ BenIdle /\ DedupIdle /\ LookupIdle /\ RunIdle /\ BatchIdle /\ ValIdle /\ VresIdle /\ EnrichIdle /\ CacheIdle
SpecPipe == InitPipe /\ [][PipeNext]_vars

InitLookup == LookupInit /\ CalIdle /\ EligIdle /\ CalcIdle /\ BenIdle /\ DedupIdle /\ PipeIdle /\ RunIdle /\ BatchIdle /\ ValIdle /\ VresIdle /\ EnrichIdle /\ CacheIdle
SpecLookup == InitLookup /\ [][LookupNext]_vars

InitRun == RunInit /\ CalIdle /\ EligIdle /\ CalcIdle /\ BenIdle /\ DedupIdle /\ PipeIdle /\ LookupIdle /\ BatchIdle /\ ValIdle /\ VresIdle /\ EnrichIdle /\ CacheIdle
SpecRun == InitRun /\ [][RunNext]_vars

InitBatch == BatchInit /\ CalIdle /\ EligIdle /\ CalcIdle /\ BenIdle /\ DedupIdle /\ PipeIdle /\ LookupIdle /\ RunIdle /\ ValIdle /\ VresIdle /\ EnrichIdle /\ CacheIdle
SpecBatch == InitBatch /\ [][BatchNext]_vars

InitVal == ValInit /\ CalIdle /\ EligIdle /\ CalcIdle /\ BenIdle /\ DedupIdle /\ PipeIdle /\ LookupIdle /\ RunIdle /\ BatchIdle /\ VresIdle /\ EnrichIdle /\ CacheIdle
SpecVal == InitVal /\ [][ValNext]_vars

InitVres == VresInit /\ CalIdle /\ EligIdle /\ CalcIdle /\ BenIdle /\ DedupIdle /\ PipeIdle /\ LookupIdle /\ RunIdle /\ BatchIdle /\ ValIdle /\ EnrichIdle /\ CacheIdle
SpecVres == InitVres /\ [][VresNext]_vars

InitEnrich == EnrichInit /\ CalIdle /\ EligIdle /\ CalcIdle /\ BenIdle /\ DedupIdle /\ PipeIdle /\ LookupIdle /\ RunIdle /\ BatchIdle /\ ValIdle /\ VresIdle /\ CacheIdle
SpecEnrich == InitEnrich /\ [][EnrichNext]_vars

InitCache == CacheInit /\ CalIdle /\ EligIdle /\ CalcIdle /\ BenIdle /\ DedupIdle /\ PipeIdle /\ LookupIdle /\ RunIdle /\ BatchIdle /\ ValIdle /\ VresIdle /\ EnrichIdle
SpecCache == InitCache /\ [][CacheNext]_vars

-----------------------------------------------------------------------------
(* Properties of the calendar service                                        *)

C2_WorkingDaysBetween ==
    cal_call.op = "get_working_days_between" =>
        /\ cal_result =
             Cardinality({d \in DatesBetween(cal_call.start, cal_call.end) :
                            IsMonFri(d) /\ ~InList(d, cal_call.holidays)})
        /\ (~DateLE(cal_call.start, cal_call.end) => cal_result = 0)

\* Monday 2025-01-20 to Friday 2025-01-31 with the Monday a holiday: 9 days
C2_Witness ==
    /\ cal_call.op = "get_working_days_between"
    /\ cal_call.start = MkDate(2025, 1, 20) /\ cal_call.end = MkDate(2025, 1, 31)
    /\ cal_call.holidays = <<MkDate(2025, 1, 20)>>
    /\ cal_result = 9


-----------------------------------------------------------------------------
(* Properties of the eligibility step                                        *)

IsDateValue(v) == v.kind \in {"date", "str"}
InRefMonth(v, y, m) == IsDateValue(v) /\ v.year = y /\ v.month = m

\* no complete interval is recorded: an endpoint is missing or None
NoInterval(start, end) ==
    start.kind \in {"absent", "none"} \/ end.kind \in {"absent", "none"}

NoVacation(e) == NoInterval(e.data_inicio_ferias, e.data_fim_ferias)
NoLeave(e) == NoInterval(e.data_inicio_afastamento, e.data_fim_afastamento)

\* number of Monday-to-Friday dates d with a <= d <= b
WeekdaysIn(a, b) == Cardinality({d \in DatesBetween(a, b) : IsMonFri(d)})

\* number of Monday-to-Friday dates of month m of year y inside [start, end]
WeekdaysOfMonthIn(start, end, y, m) ==
    Cardinality({d \in DatesOfMonth(y, m) :
                   IsMonFri(d) /\ DateLE(AsDate(start), d) /\ DateLE(d, AsDate(end))})

EligCalled == elig_call.op = "calculate_employee_working_days"

\* C3: after the eligibility step, the employee's working_days is >= 0 for
\* every combination of admission, termination, vacation and leave values,
\* including intervals longer than the base days and records whose
\* computation failed.
C3_WorkingDaysNonNegative == EligCalled => elig_days >= 0

\* vacation and leave each cover all 23 weekdays of January 2025
C3_Witness ==
    /\ EligCalled
    /\ elig_call.month = 1
    /\ elig_call.employee.data_desligamento = Absent
    /\ elig_call.employee.data_inicio_ferias = MkDate(2025, 1, 1)
    /\ elig_call.employee.data_fim_ferias = MkDate(2025, 1, 31)
    /\ elig_call.employee.data_inicio_afastamento = MkDate(2025, 1, 1)
    /\ elig_call.employee.data_fim_afastamento = MkDate(2025, 1, 31)
    /\ EmployeeDaysBody(elig_call.employee, 1, 2025).value < 0
    /\ elig_days = 0

C5_AdmissionAdjustment ==
    LET e == elig_call.employee
        y == elig_call.year
        m == elig_call.month
    IN  ( /\ EligCalled
          /\ IsDateValue(e.data_admissao)
          /\ e.data_desligamento \in {Absent, NoneValue}
          /\ NoVacation(e) /\ NoLeave(e) )
        => IF InRefMonth(e.data_admissao, y, m)
           THEN elig_days = WeekdaysIn(AsDate(e.data_admissao), LastDay(y, m))
           ELSE elig_days = Cardinality({d \in DatesOfMonth(y, m) : IsMonFri(d)})

\* admitted on Monday 2025-01-20: the 10 weekdays from the 20th to the 31st
C5_Witness ==
    /\ EligCalled
    /\ elig_call.month = 1
    /\ elig_call.employee.data_admissao = MkDate(2025, 1, 20)
    /\ elig_call.employee.data_desligamento = Absent
    /\ NoVacation(elig_call.employee) /\ NoLeave(elig_call.employee)
    /\ elig_days = 10

\* base days left by the admission and termination adjustments
BaseWindowDays(e, m, y) ==
    TerminationAdjustment(e, m, y,
        AdmissionAdjustment(e, m, y, calculate_working_days(m, y, <<>>)).value).value

IntervalDeduction(start, end, y, m) ==
    IF NoInterval(start, end) THEN 0 ELSE WeekdaysOfMonthIn(start, end, y, m)

\* C6: whenever the vacation interval overlaps the reference month, also when
\* it starts before the first day of the month, the eligibility step
\* subtracts from the base days the number of weekdays in the intersection of
\* the interval with the month; the leave interval is treated identically.
C6_OverlapSubtracted ==
    LET e == elig_call.employee
        y == elig_call.year
        m == elig_call.month
        r == EmployeeDaysBody(e, m, y)
        okInterval(a, b) == NoInterval(a, b) \/ (IsDateValue(a) /\ IsDateValue(b))
    IN  ( /\ EligCalled
          /\ ~r.raised /\ ~r.returned
          /\ okInterval(e.data_inicio_ferias, e.data_fim_ferias)
          /\ okInterval(e.data_inicio_afastamento, e.data_fim_afastamento) )
        => elig_days =
             Max(0, BaseWindowDays(e, m, y)
                    - IntervalDeduction(e.data_inicio_ferias, e.data_fim_ferias, y, m)
                    - IntervalDeduction(e.data_inicio_afastamento,
                                        e.data_fim_afastamento, y, m))

\* the same statement for the intervals that start inside the reference month
C6_StartInMonthSubtracted ==
    LET e == elig_call.employee
        y == elig_call.year
        m == elig_call.month
        startsInMonth(a, b) == NoInterval(a, b) \/ InRefMonth(a, y, m)
    IN  ( /\ startsInMonth(e.data_inicio_ferias, e.data_fim_ferias)
          /\ startsInMonth(e.data_inicio_afastamento, e.data_fim_afastamento) )
        => C6_OverlapSubtracted


-----------------------------------------------------------------------------
(* Properties of the benefit calculator                                       *)

Abs(x) == IF x < 0 THEN -x ELSE x

HasDirectorMarker(position) ==
    Contains(S_diretor, Lower(position)) \/ Contains(S_presidente, Lower(position))

\* C7: every employee whose position contains a director or president marker
\* in any letter case ends the calculation with status Excluded and an
\* exclusion_reason containing "direção", whatever the dates and prior status.
C7_DirectorExcluded ==
    calc_pc = "done" =>
        \A k \in 1..Len(calc_employees) :
            HasDirectorMarker(calc_employees[k].position) =>
                /\ calc_employees[k].status = "EXCLUIDO"
                /\ Contains(S_direcao, calc_employees[k].exclusion_reason)
                /\ ~InList(k, calc_result.data)

\* "Diretor Financeiro", terminated on the 10th, in a batch beside an analyst
C7_Witness ==
    /\ calc_pc = "done"
    /\ Len(calc_employees) = 2
    /\ calc_employees[1].position = P_Analista
    /\ calc_employees[2].position = P_DiretorFinanceiro
    /\ calc_employees[2].data_desligamento = MkDate(2025, 1, 10)
    /\ calc_employees[2].status = "EXCLUIDO"
    /\ calc_employees[2].exclusion_reason = R_CargoDeDirecao

\* C8: every benefit in the result of calculate_benefits_for_employees
\* satisfies |total_value - daily_value * working_days| <= 0.01, for every
\* working_days >= 0 (0 included), also after the minimum and maximum clamps.
C8_RoundTrip ==
    calc_pc = "done" =>
        \A i \in 1..Len(calc_result.data) :
            LET e == calc_employees[calc_result.data[i]]
            IN  \A b \in 1..Len(e.benefits) :
                    Abs(e.benefits[b].total_value
                        - e.benefits[b].daily_value * e.working_days) <= Tolerance

-----------------------------------------------------------------------------
(* Properties of the value split                                             *)

-----------------------------------------------------------------------------
(* Properties of the de-duplication                                          *)

\* C10: when, for some id, one input record is Active and another record of
\* the same id is not, the record kept for that id is Active, whatever the
\* order of the records, their name lengths and their admission dates.
C10_ActiveKept ==
    dedup_input # <<>> =>
        \A i \in 1..Len(dedup_input), j \in 1..Len(dedup_input) :
            ( /\ dedup_input[i].id = dedup_input[j].id
              /\ dedup_input[i].status = "ATIVO"
              /\ dedup_input[j].status # "ATIVO" )
            => \A k \in 1..Len(dedup_output) :
                  dedup_output[k].id = dedup_input[i].id =>
                      dedup_output[k].status = "ATIVO"

-----------------------------------------------------------------------------
(* Properties of the pipeline                                                *)

BothRunsDone == pipe_pc = "ran" /\ Len(pipe_outputs) = 2

-----------------------------------------------------------------------------
(* Properties of the rate lookup                                             *)

\* a table whose rows all carry a position key
WellFormed(table) == \A i \in 1..Len(table.rows) : table.rows[i].Cargo # NaN

\* the rows whose key, lower-cased, occurs in the lower-cased position
KeyMatches(table, position) ==
    { i \in 1..Len(table.rows) :
        Len(position) > 0 /\ Contains(Lower(table.rows[i].Cargo), Lower(position)) }

\* C12: the daily rate is the value of the first row, in table order, whose
\* position key is a case-insensitive substring of the employee's position;
\* with no matching row (an empty position included) it is the value of the
\* table's first row; with no table it is the default rate 25.0.
C12_DailyRateLookup ==
    lookup_call.op # "none" =>
        LET table == lookup_call.table
            rate == lookup_result.daily_value
        IN  /\ ~table.present => rate = Money(25, 0)
            /\ (table.present /\ WellFormed(table) /\ Len(table.rows) > 0) =>
                 LET matches == KeyMatches(table, lookup_call.position)
                 IN  /\ matches # {} =>
                          \E i \in matches :
                              /\ \A j \in matches : i <= j
                              /\ rate = table.rows[i].Valor_Diario
                     /\ matches = {} => rate = table.rows[1].Valor_Diario

\* "ANALISTA SENIOR" against the rows senior (60) and Analista (50): both
\* match, the first in table order gives the rate
C12_Witness ==
    /\ lookup_call.op # "none"
    /\ lookup_call.position = P_AnalistaSenior
    /\ Len(lookup_call.table.rows) = 2
    /\ lookup_call.table.rows[1].Valor_Diario = Money(60, 0)
    /\ lookup_call.table.rows[2].Valor_Diario = Money(50, 0)
    /\ lookup_result.daily_value = Money(60, 0)

-----------------------------------------------------------------------------
(* Further properties of the benefit calculator                              *)

\* C13: an employee who is not excluded by category (one that passed
\* _apply_exclusion_rules) and whose computed working_days is 0 keeps a non-excluded status and ends the calculation
\* with a benefit whose total_value is 0.
C13_ZeroDaysZeroBenefit ==
    calc_pc = "done" =>
        \A k \in 1..Len(calc_employees) :
            ( /\ InList(k, calc_list)
              /\ calc_employees[k].working_days = 0 )
            => /\ calc_employees[k].status # "EXCLUIDO"
               /\ InList(k, calc_result.data)
               /\ Len(calc_employees[k].benefits) = 1
               /\ calc_employees[k].benefits[1].total_value = 0

\* the part of C13 that the calculation keeps: the status and the presence of
\* the benefit
C13_ZeroDaysStillParticipates ==
    calc_pc = "done" =>
        \A k \in 1..Len(calc_employees) :
            ( /\ InList(k, calc_list)
              /\ calc_employees[k].working_days = 0 )
            => /\ calc_employees[k].status # "EXCLUIDO"
               /\ InList(k, calc_result.data)
               /\ Len(calc_employees[k].benefits) = 1


-----------------------------------------------------------------------------
(* Properties of a run                                                       *)

C14_ExcludedHasNoBenefitInCalculator ==
    \A k \in 1..Len(calc_employees) :
        calc_employees[k].status = "EXCLUIDO" => calc_employees[k].benefits = <<>>

MissingRequired == run_pc # "idle" /\ (RequiredFiles \ run_input.present) # {}

RunAborted ==
    /\ \A i \in 1..Len(run_steps) : run_steps[i] = "validation"
    /\ run_pc \in {"validation", "done"}
    /\ run_pc = "done" =>
          /\ Len(run_calls) > 0
          /\ ~run_calls[Len(run_calls)].outcome.raised
          /\ ~run_calls[Len(run_calls)].outcome.success

\* C15: when a required file category is absent from uploaded_files, the run
\* ends with a failure result and no consolidation, eligibility,
\* benefit-calculation or report step is executed
C15_MissingFileAborts == MissingRequired => RunAborted

\* the same for the runs that go through CoordinatorAgent.process_vr_va_request
C15_MissingFileAbortsCoordinator ==
    (MissingRequired /\ run_input.path = "coordinator") => RunAborted


GuardedEntryPoints ==
    { "process_vr_va_request", "consolidate_employee_data", "calculate_benefits_for_employees" }

\* the step in which an exception was raised lies inside the call
RaisedInside(call) ==
    \/ call.fn = "process_vr_va_request"
          /\ run_input.fault \notin {"none", "employee_validation"}
    \/ call.fn = "consolidate_employee_data" /\ run_input.fault = "consolidation"
    \/ call.fn = "calculate_benefits_for_employees" /\ run_input.fault = "benefits"

-----------------------------------------------------------------------------
(* Properties of a batch with failing records                                *)

\* the employees of the batch that are not excluded and whose working days
\* cannot be computed
FailingRecord(k) ==
    /\ InList(k, batch_list)
    /\ FailsWorkingDays(batch_input[k], 1, 2025)

\* the objects at the end of the calculation of the batch without its
\* failing records
WithoutFailing ==
    SelectSeq(batch_input, LAMBDA e : ~FailsWorkingDays(e, 1, 2025))

CleanObjects ==
    calculate_values_and_rules(
        calculate_working_days_of_employees(
            [k \in 1..Len(WithoutFailing) |->
                IF should_exclude_employee(WithoutFailing[k])
                THEN ExcludeEmployee(WithoutFailing[k]) ELSE WithoutFailing[k]],
            BatchFiltered(WithoutFailing), 1, 2025),
        BatchFiltered(WithoutFailing), 1, 2025, NoTable)

-----------------------------------------------------------------------------
(* Properties of validate_calculations                                       *)

HasFinding(findings, k) == \E i \in 1..Len(findings) : findings[i].id = val_employees[k].id

NegativeValue(k) ==
    \/ val_employees[k].working_days < 0
    \/ \E i \in 1..Len(val_employees[k].benefits) :
          \/ val_employees[k].benefits[i].total_value < 0
          \/ val_employees[k].benefits[i].daily_value < 0

Inconsistent(k) ==
    \E i \in 1..Len(val_employees[k].benefits) :
        Abs(val_employees[k].benefits[i].total_value
            - val_employees[k].benefits[i].daily_value * val_employees[k].working_days)
          > Tolerance

\* C18: validate_calculations reports an error exactly for the employees
\* with working_days < 0 or a benefit with total_value < 0 or daily_value < 0;
\* working_days > 31 and a difference |total_value - daily_value *
\* working_days| > 0.01 give warnings only; is_valid is true exactly when no
\* error was reported
C18_ErrorsAndWarnings ==
    val_pc = "done" =>
        /\ \A k \in 1..Len(val_employees) :
              /\ HasFinding(val_result.errors, k) <=> NegativeValue(k)
              /\ (val_employees[k].working_days > 31 \/ Inconsistent(k))
                    => HasFinding(val_result.warnings, k)
        /\ val_result.is_valid <=> (Len(val_result.errors) = 0)

\* an employee with 32 working days and an inconsistent total, and no
\* negative value: warnings, no error, the result is valid
C18_Witness ==
    /\ val_pc = "done"
    /\ Len(val_employees) = 1
    /\ val_employees[1].working_days = 32
    /\ Inconsistent(1)
    /\ ~NegativeValue(1)
    /\ Len(val_result.warnings) = 2
    /\ val_result.is_valid


-----------------------------------------------------------------------------
(* Properties of ValidationResult                                            *)

ValidoIffNoErrors ==
    /\ vres.valido <=> (Len(vres.erros) = 0)
    /\ vres.total_erros = Len(vres.erros)

\* C19: after any sequence of adicionar_erro, adicionar_warning and
\* adicionar_info, valido is true exactly when no error was collected and
\* total_erros is the length of erros, also for the overall ValidationResult
\* of validate_uploaded_files
C19_ValidoIffNoErrors == vres_origin # "none" => ValidoIffNoErrors

\* the same for the objects created with the defaults
C19_ValidoIffNoErrorsFromDefaults == vres_origin = "defaults" => ValidoIffNoErrors


-----------------------------------------------------------------------------
(* Properties of the exclusion reason                                        *)

\* the reasons of the exclusion categories the employee matches
MatchedCategories(employee) ==
    (IF Contains(S_diretor, Lower(employee.position))
        \/ Contains(S_presidente, Lower(employee.position))
     THEN {R_CargoDeDirecao} ELSE {})
    \cup (IF Contains(S_estagiario_acento, Lower(employee.position))
             \/ Contains(S_estagiario, Lower(employee.position))
          THEN {R_Estagiario} ELSE {})
    \cup (IF Contains(S_aprendiz, Lower(employee.position)) THEN {R_Aprendiz} ELSE {})
    \cup (IF employee.status = "EXTERIOR" THEN {R_Exterior} ELSE {})

\* C20: the exclusion_reason given to an excluded employee names every
\* exclusion category the employee matches (direction, intern, apprentice,
\* overseas), joined with "; "
C20_ReasonNamesEveryCategory ==
    [][ calc_pc = "exclusion_rules" =>
          \A k \in 1..Len(calc_employees) :
              should_exclude_employee(calc_employees[k]) =>
                  /\ \A reason \in MatchedCategories(calc_employees[k]) :
                        Contains(reason, calc_employees'[k].exclusion_reason)
                  /\ Cardinality(MatchedCategories(calc_employees[k])) > 1 =>
                        Contains(R_Separator, calc_employees'[k].exclusion_reason) ]_vars

\* what holds: the reason names the position category tested first
C20_ReasonNamesFirstPositionCategory ==
    [][ calc_pc = "exclusion_rules" =>
          \A k \in 1..Len(calc_employees) :
              should_exclude_employee(calc_employees[k]) =>
                  calc_employees'[k].exclusion_reason =
                      get_exclusion_reason([calc_employees[k] EXCEPT !.status = "EXCLUIDO"]) ]_vars


-----------------------------------------------------------------------------
(* Properties of the de-duplication, continued                               *)

InfoScore(record) ==
    Len(record.name) + (IF record.admission_date.kind # "none" THEN 1 ELSE 0)

\* the positions of the input records with this id
RecordsOf(id) == { i \in 1..Len(dedup_input) : dedup_input[i].id = id }

\* the first of the records of the id that have the largest score
FirstBest(id) ==
    CHOOSE i \in RecordsOf(id) :
        /\ \A j \in RecordsOf(id) : InfoScore(dedup_input[j]) <= InfoScore(dedup_input[i])
        /\ \A j \in RecordsOf(id) :
              InfoScore(dedup_input[j]) = InfoScore(dedup_input[i]) => i <= j

\* the ids of the input in the order of their first occurrence
FirstOccurrences ==
    SelectSeq([i \in 1..Len(dedup_input) |-> i],
              LAMBDA i : \A j \in 1..(i - 1) : dedup_input[j].id # dedup_input[i].id)

\* C21: when no record of a duplicated id is Active, the record kept is the
\* one with the strictly largest score len(name) + (1 if admission_date else
\* 0), the first seen among records of equal score; the output lists the
\* ids in the order of their first occurrence in the input
C21_BestScoreKept ==
    dedup_input # <<>> =>
        /\ Len(dedup_output) = Len(FirstOccurrences)
        /\ \A k \in 1..Len(dedup_output) :
              /\ dedup_output[k].id = dedup_input[FirstOccurrences[k]].id
              /\ (\A i \in RecordsOf(dedup_output[k].id) : dedup_input[i].status # "ATIVO")
                    => dedup_output[k] = dedup_input[FirstBest(dedup_output[k].id)]

\* two ids, the second one with two records of equal score and different
\* status (the first is kept), none of them Active
C21_Witness ==
    /\ Len(dedup_input) = 3
    /\ dedup_input[1].id = 2 /\ dedup_input[2].id = 1 /\ dedup_input[3].id = 2
    /\ dedup_input[1].status = "DESLIGADO" /\ dedup_input[3].status = "EXTERIOR"
    /\ InfoScore(dedup_input[1]) = InfoScore(dedup_input[3])
    /\ dedup_input[2].status # "ATIVO"
    /\ Len(dedup_output) = 2
    /\ dedup_output[1] = dedup_input[1]


\* C28: the output of _remove_duplicates holds each id of the input exactly
\* once, and _validate_data_consistency reports no duplicate-ID error on it
C28_EachIdOnce ==
    dedup_input # <<>> =>
        /\ \A i \in 1..Len(dedup_input) :
              Cardinality({ k \in 1..Len(dedup_output) :
                              dedup_output[k].id = dedup_input[i].id }) = 1
        /\ \A k \in 1..Len(dedup_output) : RecordsOf(dedup_output[k].id) # {}
        /\ validate_data_consistency(dedup_output).errors = <<>>

\* an id that occurs twice with another id in between: the input has a
\* duplicate id, the output has two records
C28_Witness ==
    /\ Len(dedup_input) = 3
    /\ dedup_input[1].id = dedup_input[3].id
    /\ dedup_input[2].id # dedup_input[1].id
    /\ validate_data_consistency(dedup_input).errors # <<>>
    /\ Len(dedup_output) = 2


-----------------------------------------------------------------------------
(* Properties of the enrichment                                              *)

\* the orders in which the five sources can be applied
SourceOrders ==
    { o \in [1..5 -> { SourceOrder[i] : i \in 1..5 }] :
        \A i, j \in 1..5 : i # j => o[i] # o[j] }

PositionOf(source, order) == CHOOSE i \in 1..5 : order[i] = source

\* the ids of enr_all that are in the list of the source
IdsIn(source) ==
    { enr_files[source][i].ID : i \in 1..Len(enr_files[source]) }
    \cap { enr_all[i].id : i \in 1..Len(enr_all) }

\* an id is in two lists that write the same field: intern and apprentice
\* both write position
SameFieldConflict == IdsIn("estagio") \cap IdsIn("aprendiz") # {}

\* C22: the five enrichment sources applied in any order give the same
\* employees, unless an id is in two lists that write the same field; then
\* the source that comes later in the order vacation, leave, intern,
\* apprentice, overseas decides (an id in the intern and the apprentice list
\* ends with the apprentice position)
C22_OrderIndependent ==
    enr_pc = "enriched" =>
        /\ \A o \in SourceOrders :
              (~SameFieldConflict \/ PositionOf("estagio", o) < PositionOf("aprendiz", o))
                  => apply_in_order(enr_all, enr_files, o, 1) = enr_employees
        /\ \A id \in IdsIn("estagio") \cap IdsIn("aprendiz") :
              enr_employees[FirstWithId(enr_all, id)].position = P_APRENDIZ

\* an employee in the intern and the apprentice list, with vacation dates
C22_Witness ==
    /\ enr_pc = "enriched"
    /\ 1 \in IdsIn("estagio") \cap IdsIn("aprendiz") \cap IdsIn("ferias")
    /\ enr_employees[FirstWithId(enr_all, 1)].position = P_APRENDIZ
    /\ enr_employees[FirstWithId(enr_all, 1)].vacation_start = MkDate(2025, 1, 6)


\* the record kept for the id in the consolidated output
KeptRecord(id) == enr_employees[CHOOSE k \in 1..Len(enr_employees) : enr_employees[k].id = id]

\* C27: enrichment is not lost by de-duplication: for every id of the
\* overseas, vacation, leave, intern or apprentice list that is in the
\* consolidated output, the record kept has status EXTERIOR, the vacation
\* dates, the leave dates or the position override, also when the id has
\* several source rows
C27_EnrichmentKept ==
    enr_pc = "consolidated" =>
        /\ \A id \in IdsIn("exterior") : KeptRecord(id).status = "EXTERIOR"
        /\ \A id \in IdsIn("ferias") : KeptRecord(id).vacation_start = MkDate(2025, 1, 6)
        /\ \A id \in IdsIn("afastamentos") : KeptRecord(id).leave_start = MkDate(2025, 1, 6)
        /\ \A id \in IdsIn("estagio") \ IdsIn("aprendiz") :
              KeptRecord(id).position = P_ESTAGIARIO
        /\ \A id \in IdsIn("aprendiz") : KeptRecord(id).position = P_APRENDIZ

\* what holds: the enrichment is kept for the ids with a single source row
C27_EnrichmentKeptSingleRow ==
    (enr_pc = "consolidated"
        /\ \A i, j \in 1..Len(enr_all) : i # j => enr_all[i].id # enr_all[j].id)
    => /\ \A id \in IdsIn("exterior") : KeptRecord(id).status = "EXTERIOR"
       /\ \A id \in IdsIn("ferias") : KeptRecord(id).vacation_start = MkDate(2025, 1, 6)
       /\ \A id \in IdsIn("afastamentos") : KeptRecord(id).leave_start = MkDate(2025, 1, 6)
       /\ \A id \in IdsIn("aprendiz") : KeptRecord(id).position = P_APRENDIZ


\* the run has completed successfully: its last step has run and the last
\* call returned success
RunSucceeded ==
    /\ run_pc = "done"
    /\ Len(run_calls) > 0
    /\ run_calls[Len(run_calls)].outcome.success
    /\ run_steps[Len(run_steps)] \in {"report", "log"}

StepAt(step) == { i \in 1..Len(run_steps) : run_steps[i] = step }

Before(first, second) ==
    /\ StepAt(first) # {} /\ StepAt(second) # {}
    /\ \A i \in StepAt(first), j \in StepAt(second) : i < j

\* C23: in a run that completes successfully the stages run in the order
\* consolidation, validation of the consolidated data, eligibility rules,
\* benefit calculation, validation of the calculation, report; the
\* validation of the calculation runs after the benefit calculation and
\* before the report
C23_StageOrder ==
    RunSucceeded =>
        /\ Before("consolidation", "benefits")
        /\ Before("benefits", "calculation_validation")
        /\ Before("calculation_validation", "report")

\* what holds: consolidation, then the benefit calculation, then the report,
\* every step run once
C23_StagesThatRun ==
    RunSucceeded =>
        /\ Before("consolidation", "benefits")
        /\ Before("benefits", "report")
        /\ \A i, j \in 1..Len(run_steps) : i # j => run_steps[i] # run_steps[j]
        /\ StepAt("calculation_validation") = {}


-----------------------------------------------------------------------------
(* Properties of the clamps                                                  *)

InRange(total_value) ==
    /\ Money(MinTotalValue, 0) <= total_value
    /\ total_value <= Money(MaxTotalValue, 0)

\* C24: after _apply_specific_rules the total_value of every benefit lies
\* between the floor (10) and the ceiling (1000); when a clamp changed
\* total_value, daily_value is total_value / working_days for working_days >
\* 0 and 0 for working_days = 0; a benefit whose total_value was inside the
\* range is left as it was
C24_Clamps ==
    [][ calc_pc = "specific_rules" =>
          \A k \in 1..Len(calc_employees) :
              InList(k, calc_list) =>
                  /\ Len(calc_employees'[k].benefits) = Len(calc_employees[k].benefits)
                  /\ \A b \in 1..Len(calc_employees[k].benefits) :
                        /\ InRange(calc_employees'[k].benefits[b].total_value)
                        /\ calc_employees'[k].benefits[b].total_value
                              # calc_employees[k].benefits[b].total_value
                           => calc_employees'[k].benefits[b].daily_value =
                                 IF calc_employees[k].working_days > 0
                                 THEN calc_employees'[k].benefits[b].total_value
                                         \div calc_employees[k].working_days
                                 ELSE 0
                        /\ InRange(calc_employees[k].benefits[b].total_value)
                           => calc_employees'[k].benefits[b] = calc_employees[k].benefits[b] ]_vars

\* after the step: a benefit brought down to the ceiling (50 a day for 23
\* days) and one raised to the floor (0 working days)
C24_Witness ==
    /\ calc_pc = "summary"
    /\ \E k \in 1..Len(calc_employees) :
          /\ InList(k, calc_list)
          /\ calc_employees[k].working_days = 23
          /\ calc_employees[k].benefits[1].total_value = Money(MaxTotalValue, 0)
          /\ calc_employees[k].benefits[1].daily_value = Money(MaxTotalValue, 0) \div 23
    /\ \E k \in 1..Len(calc_employees) :
          /\ InList(k, calc_list)
          /\ calc_employees[k].working_days = 0
          /\ calc_employees[k].benefits[1].total_value = Money(MinTotalValue, 0)
          /\ calc_employees[k].benefits[1].daily_value = 0


-----------------------------------------------------------------------------
(* Properties of the eligibility step, continued                             *)

\* admission and termination both in the reference month, the termination
\* on the 16th or later and not before the admission
AdmittedAndTerminatedInMonth ==
    /\ EligCalled
    /\ InRefMonth(elig_call.employee.data_admissao, elig_call.year, elig_call.month)
    /\ InRefMonth(elig_call.employee.data_desligamento, elig_call.year, elig_call.month)
    /\ elig_call.employee.data_desligamento.day >= 16
    /\ elig_call.employee.data_admissao.day <= elig_call.employee.data_desligamento.day

\* C25: with admission and termination in the reference month, termination
\* day >= 16 and admission <= termination, both adjustments take effect:
\* working_days does not exceed the number of weekdays of
\* [admission_date, termination_date]
C25_BothAdjustments ==
    AdmittedAndTerminatedInMonth =>
        elig_days <= WeekdaysIn(AsDate(elig_call.employee.data_admissao),
                                AsDate(elig_call.employee.data_desligamento))

\* what holds: the termination adjustment alone, counted from the first day
\* of the month
C25_TerminationAdjustmentOnly ==
    AdmittedAndTerminatedInMonth =>
        elig_days <= WeekdaysIn(FirstDay(elig_call.year, elig_call.month),
                                AsDate(elig_call.employee.data_desligamento))

\* the dates an interval covers; none when an endpoint is missing
CoveredDates(start, end, y, m) ==
    IF NoInterval(start, end) THEN {}
    ELSE {d \in DatesOfMonth(y, m) : DateLE(AsDate(start), d) /\ DateLE(d, AsDate(end))}

\* the dates of the month the admission and termination adjustments leave:
\* up to the termination date when it is in the month, else from the
\* admission date when it is in the month, else the whole month
BaseWindow(e, m, y) ==
    IF InRefMonth(e.data_desligamento, y, m)
    THEN {d \in DatesOfMonth(y, m) : DateLE(d, AsDate(e.data_desligamento))}
    ELSE IF InRefMonth(e.data_admissao, y, m)
    THEN {d \in DatesOfMonth(y, m) : DateLE(AsDate(e.data_admissao), d)}
    ELSE DatesOfMonth(y, m)

\* the call ran to the final subtraction with well-formed intervals
SubtractionReached ==
    LET e == elig_call.employee
        r == EmployeeDaysBody(e, elig_call.month, elig_call.year)
        okInterval(a, b) == NoInterval(a, b) \/ (IsDateValue(a) /\ IsDateValue(b))
    IN  /\ EligCalled
        /\ ~r.raised /\ ~r.returned
        /\ okInterval(e.data_inicio_ferias, e.data_fim_ferias)
        /\ okInterval(e.data_inicio_afastamento, e.data_fim_afastamento)

VacationDates ==
    CoveredDates(elig_call.employee.data_inicio_ferias,
                  elig_call.employee.data_fim_ferias, elig_call.year, elig_call.month)

LeaveDates ==
    CoveredDates(elig_call.employee.data_inicio_afastamento,
                  elig_call.employee.data_fim_afastamento, elig_call.year, elig_call.month)

\* C26: for an employee the day-15 rule does not zero, working_days is the
\* number of weekdays of the base window that lie in neither the vacation
\* interval nor the leave interval: a weekday both intervals cover is
\* subtracted once, and a vacation or leave weekday outside the base window
\* is not subtracted
C26_UnionSubtracted ==
    SubtractionReached =>
        elig_days =
            Cardinality({d \in BaseWindow(elig_call.employee, elig_call.month,
                                          elig_call.year) :
                           IsMonFri(d) /\ d \notin VacationDates /\ d \notin LeaveDates})

\* what holds: the same count when the two intervals start in the month,
\* share no date and lie inside the base window
C26_DisjointInsideWindow ==
    LET e == elig_call.employee
        y == elig_call.year
        m == elig_call.month
        startsInMonth(a, b) == NoInterval(a, b) \/ InRefMonth(a, y, m)
    IN  ( /\ SubtractionReached
          /\ startsInMonth(e.data_inicio_ferias, e.data_fim_ferias)
          /\ startsInMonth(e.data_inicio_afastamento, e.data_fim_afastamento)
          /\ VacationDates \cap LeaveDates = {}
          /\ (VacationDates \cup LeaveDates) \subseteq BaseWindow(e, m, y) )
        => C26_UnionSubtracted

\* vacation and leave both cover the ten weekdays of 6..17 January 2025 and
\* the ten days are subtracted twice from the 23 of the month
C26_SameDaysSubtractedTwice ==
      ( /\ SubtractionReached
        /\ elig_call.month = 1
        /\ elig_call.employee.data_admissao = Absent
        /\ elig_call.employee.data_desligamento = Absent
        /\ elig_call.employee.data_inicio_ferias = MkDate(2025, 1, 6)
        /\ elig_call.employee.data_fim_ferias = MkDate(2025, 1, 17)
        /\ elig_call.employee.data_inicio_afastamento = MkDate(2025, 1, 6)
        /\ elig_call.employee.data_fim_afastamento = MkDate(2025, 1, 17)
        /\ elig_days = 3 )

-----------------------------------------------------------------------------
(* Properties of the calendar service, continued                             *)

MonthCall == cal_call.op = "get_working_days_in_month"

NoRepeatedDate(holidays) ==
    \A i, j \in 1..Len(holidays) : holidays[i] = holidays[j] => i = j

\* C29: for every year, month and holiday list, including a list that holds
\* the same date more than once, get_working_days_in_month(year, month,
\* holidays) equals get_working_days_between(first day of the month, last day
\* of the month, holidays)
C29_MonthEqualsBetween ==
    MonthCall =>
        cal_result = get_working_days_between(FirstDay(cal_call.year, cal_call.month),
                                              LastDay(cal_call.year, cal_call.month),
                                              cal_call.holidays)

\* what holds: the two counts agree when no date is listed twice
C29_MonthEqualsBetweenNoRepeats ==
    (MonthCall /\ NoRepeatedDate(cal_call.holidays)) => C29_MonthEqualsBetween

\* Monday 2025-01-20 listed twice is subtracted twice from the 23 weekdays
C29_RepeatedHoliday ==
    /\ MonthCall
    /\ cal_call.year = 2025 /\ cal_call.month = 1
    /\ cal_call.holidays = <<MkDate(2025, 1, 20), MkDate(2025, 1, 20)>>
    /\ cal_result = 21

-----------------------------------------------------------------------------
(* Properties of the file cache                                              *)

\* the most recent set of the key was not removed since and is younger than
\* max_age
Live(key) ==
    /\ cache_last[key].set
    /\ ~cache_last[key].removed
    /\ cache_now - cache_last[key].time < MaxAgeHours

\* a call of get: the only step that leaves "get" as the last call without
\* moving the clock
GetStep == cache_call'.op = "get" /\ cache_now' = cache_now

\* C30: for every sequence of set, get, delete, clear, cleanup_expired and
\* passage of time, get(k) returns the value of the most recent set(k, v)
\* if and only if the entry was not removed since and its age is strictly
\* less than max_age, and None otherwise; get itself removes or changes no
\* entry
C30_GetReturnsLiveValue ==
    [][GetStep =>
          /\ cache_call'.data =
                IF Live(cache_call'.key) THEN cache_last[cache_call'.key].value
                ELSE None
          /\ (cache_call'.data # None <=> Live(cache_call'.key))
          /\ cache_files' = cache_files]_vars

\* get returned None for an entry whose age is exactly max_age, and the file
\* is still in the directory
C30_Witness ==
    /\ cache_call.op = "get"
    /\ cache_call.data = None
    /\ cache_files[cache_call.key].exists
    /\ cache_last[cache_call.key].set /\ ~cache_last[cache_call.key].removed
    /\ cache_now - cache_files[cache_call.key].mtime = MaxAgeHours

\* get returned the second value set for a key, one hour after the set
C30_OverwrittenValueReturned ==
    /\ cache_call.op = "get"
    /\ cache_call.data = "v2"
    /\ cache_last[cache_call.key].value = "v2"
    /\ cache_now - cache_last[cache_call.key].time = MaxAgeHours - 1

====
